---- MODULE Spec2Model ----
(***************************************************************************)
(* Webflow AI SDK tools: the eight capability executors of                 *)
(* src/tools/index.ts, the helpers of src/lib/utils.ts and the transport   *)
(* adapter callApi of src/lib/api.ts, as a state machine.                  *)
(*                                                                         *)
(* An invocation of a tool's execute is a JavaScript async function: it    *)
(* runs synchronously up to its first awaited fetch, is resumed when that  *)
(* fetch settles, and (addCustomCode only) may await a second fetch.       *)
(* One action models each of these synchronous runs as a whole.            *)
(*                                                                         *)
(* Spec: execute is called directly, with a fixed process.env.             *)
(* ToolCallSpec: tool calls pass the contract layer first (inputSchema,    *)
(* needsApproval).  ReconfiguredSpec: process.env is assigned while two    *)
(* invocations are under way.  ConcurrentSpec: two invocations of          *)
(* publishSite or addCustomCode with their fetches settling in any order.  *)
(* HelperSpec: the helpers of utils.ts applied to bounded inputs.          *)
(***************************************************************************)
EXTENDS Integers, Sequences, FiniteSets, TLC

VARIABLES
    env,      \* process.env: WEBFLOW_API_KEY and WEBFLOW_SITE_ID
    loadEnv,  \* process.env as it was when the tools module was evaluated
    inv       \* the invocations of execute, one record per slot

vars == <<env, loadEnv, inv>>

(***************************************************************************)
(* Bounds of the model.                                                    *)
(***************************************************************************)
\* how far beyond the character limit the modelled source codes go
MaxOver == 1

\* the invocation slots of the main specification
Slots == {"a"}

(***************************************************************************)
(* JavaScript values.                                                      *)
(***************************************************************************)
Undefined == [t |-> "undefined"]
Null == [t |-> "null"]
Str(s) == [t |-> "string", s |-> s]
Num(n) == [t |-> "number", n |-> n]
Bool(b) == [t |-> "boolean", b |-> b]
Arr(a) == [t |-> "array", a |-> a]
Obj(o) == [t |-> "object", o |-> o]

EmptyRec == [k \in {} |-> Undefined]

\* obj[key] of a JavaScript object: undefined when the key is missing
Get(obj, key) == IF key \in DOMAIN obj.o THEN obj.o[key] ELSE Undefined

\* the truthiness the code's `!x`, `x || y`, `x ? a : b` and `if (x)` test
Truthy(v) ==
    CASE v.t = "undefined" -> FALSE
      [] v.t = "null" -> FALSE
      [] v.t = "string" -> v.s # ""
      [] v.t = "number" -> v.n # 0
      [] v.t = "boolean" -> v.b
      [] OTHER -> TRUE

\* a ?? b
Nullish(a, b) == IF a.t \in {"undefined", "null"} THEN b ELSE a

\* String(v), as a TLA+ string
ToStr(v) ==
    CASE v.t = "string" -> v.s
      [] v.t = "number" -> ToString(v.n)
      [] v.t = "boolean" -> (IF v.b THEN "true" ELSE "false")
      [] v.t = "undefined" -> "undefined"
      [] v.t = "null" -> "null"
      [] v.t = "array" -> "<array>"
      [] OTHER -> "[object Object]"

\* completion records of a JavaScript evaluation: a value or a thrown value
Ok(v) == [ok |-> TRUE, v |-> v]
Throw(e) == [ok |-> FALSE, e |-> e]

\* thrown values: an Error with a message (a template literal is the
\* sequence of its fragments), or a value that is no instance of Error
Error(message) == [isError |-> TRUE, message |-> message]
NonError == [isError |-> FALSE]

\* the string "x".repeat(n), as the tests build an oversized sourceCode
XRepeat(n) == [t |-> "string", xs |-> n]
\* sourceCode.length
Length(v) == v.xs

(***************************************************************************)
(* src/lib/api.ts: the transport adapter.                                  *)
(***************************************************************************)
BASE_URL == "https://api.webflow.com/v2"

\* getApiKey returning a key that was read when the module was loaded
getApiKeyReadAtLoad ==
    IF ~Truthy(loadEnv.WEBFLOW_API_KEY)
    THEN Throw(Error(<<"WEBFLOW_API_KEY environment variable is required">>))
    ELSE Ok(ToStr(loadEnv.WEBFLOW_API_KEY))

\* getApiKey without its check
getApiKeyUnchecked == Ok(ToStr(env.WEBFLOW_API_KEY))

\* getApiKey(): throws when WEBFLOW_API_KEY is unset or empty
getApiKey ==
    IF ~Truthy(env.WEBFLOW_API_KEY)
    THEN Throw(Error(<<"WEBFLOW_API_KEY environment variable is required">>))
    ELSE Ok(ToStr(env.WEBFLOW_API_KEY))

\* SearchParams setting every entry, the absent ones included
SearchParamsAll(params) ==
    [k \in DOMAIN params |-> ToStr(params[k])]

\* url.searchParams.set(key, String(value)) for every value !== undefined
SearchParams(params) ==
    LET present == {k \in DOMAIN params : params[k] # Undefined}
    IN [k \in present |-> ToStr(params[k])]

\* the headers of a request: Content-Type only with a body
Headers(apiKey, body) ==
    IF Truthy(body)
    THEN [Authorization |-> <<"Bearer ", apiKey>>,
          ContentType |-> <<"application/json">>]
    ELSE [Authorization |-> <<"Bearer ", apiKey>>]

\* callApi up to its fetch: the request handed to fetch, or the error thrown
\* before any network I/O. path is the sequence of the template's fragments.
callApiRequest(path, method, body, params) ==
    LET key == getApiKey
    IN IF ~key.ok
       THEN Throw(key.e)
       ELSE Ok([url |-> <<BASE_URL>> \o path,
                search |-> SearchParams(params),
                method |-> method,
                headers |-> Headers(key.v, body),
                body |-> body])

\* the ways a fetch settles: a success response with a JSON body, a success
\* response whose body is no JSON, a non-success response with a status and a
\* body text, or a rejected promise
FetchOk(json) == [k |-> "ok", json |-> json]
FetchBadJson == [k |-> "badjson"]
FetchHttp(status, text) == [k |-> "http", status |-> status, text |-> text]
FetchReject(e) == [k |-> "reject", e |-> e]

\* callApi reporting a non-success response by its status alone
callApiResponseStatusOnly(outcome) ==
    CASE outcome.k = "reject" -> Throw(outcome.e)
      [] outcome.k = "http" ->
            Throw(Error(<<"Webflow API error ", ToString(outcome.status)>>))
      [] outcome.k = "badjson" ->
            Throw(Error(<<"Unexpected token < in JSON at position 0">>))
      [] OTHER -> Ok(outcome.json)

\* callApi after its fetch settled: the parsed JSON body, or the error thrown
callApiResponse(outcome) ==
    CASE outcome.k = "reject" -> Throw(outcome.e)
      [] outcome.k = "http" ->
            Throw(Error(<<"Webflow API error ", ToString(outcome.status), ": ",
                          outcome.text>>))
      [] outcome.k = "badjson" ->
            Throw(Error(<<"Unexpected token < in JSON at position 0">>))
      [] OTHER -> Ok(outcome.json)

(***************************************************************************)
(* src/lib/utils.ts                                                        *)
(***************************************************************************)
getDefaultSiteId == ToStr(Nullish(env.WEBFLOW_SITE_ID, Str("")))

SiteIdRequired ==
    <<"A site ID is required. Either pass a siteId or set the WEBFLOW_SITE_ID environment variable.">>

\* resolveSiteId with the default taking precedence over the argument
resolveSiteIdDefaultFirst(siteId) ==
    LET resolved == IF getDefaultSiteId # "" THEN getDefaultSiteId
                    ELSE IF Truthy(siteId) THEN ToStr(siteId) ELSE ""
    IN IF resolved = "" THEN Throw(Error(SiteIdRequired)) ELSE Ok(resolved)

\* siteId || getDefaultSiteId(), thrown when empty
resolveSiteId(siteId) ==
    LET resolved == IF Truthy(siteId) THEN ToStr(siteId) ELSE getDefaultSiteId
    IN IF resolved = "" THEN Throw(Error(SiteIdRequired)) ELSE Ok(resolved)

\* getStringField that looks at the camel-case key first
getStringFieldCamelFirst(obj, snakeCase, camelCase) ==
    IF Truthy(Get(obj, camelCase)) THEN Str(ToStr(Get(obj, camelCase)))
    ELSE IF Truthy(Get(obj, snakeCase)) THEN Str(ToStr(Get(obj, snakeCase)))
    ELSE Undefined

\* obj[snakeCase] if truthy, else obj[camelCase] if truthy, stringified
getStringField(obj, snakeCase, camelCase) ==
    IF Truthy(Get(obj, snakeCase)) THEN Str(ToStr(Get(obj, snakeCase)))
    ELSE IF Truthy(Get(obj, camelCase)) THEN Str(ToStr(Get(obj, camelCase)))
    ELSE Undefined

\* x ? String(x) : undefined
OptString(v) == IF Truthy(v) THEN Str(ToStr(v)) ELSE Undefined

\* String(x ?? "")
StringOrEmpty(v) == Str(ToStr(Nullish(v, Str(""))))

\* typeof x === "boolean" ? x : undefined
OptBoolean(v) == IF v.t = "boolean" THEN v ELSE Undefined

\* parseTitleDescription that drops an object without title and description
parseTitleDescriptionDropsEmpty(raw) ==
    IF ~Truthy(raw) THEN Undefined
    ELSE IF ~Truthy(Get(raw, "title")) /\ ~Truthy(Get(raw, "description"))
    THEN Undefined
    ELSE Obj([title |-> OptString(Get(raw, "title")),
              description |-> OptString(Get(raw, "description"))])

parseTitleDescription(raw) ==
    IF ~Truthy(raw) THEN Undefined
    ELSE Obj([title |-> OptString(Get(raw, "title")),
              description |-> OptString(Get(raw, "description"))])

\* parseFormFields that returns the mapping it built even when it is empty
parseFormFieldsKeepsEmpty(rawFields) ==
    IF ~Truthy(rawFields) THEN Undefined
    ELSE Obj([key \in DOMAIN rawFields.o |->
                 Obj([displayName |-> OptString(Get(rawFields.o[key], "displayName")),
                      type |-> OptString(Get(rawFields.o[key], "type"))])])

parseFormFields(rawFields) ==
    IF ~Truthy(rawFields) THEN Undefined
    ELSE LET fields ==
                 [key \in DOMAIN rawFields.o |->
                     Obj([displayName |-> OptString(Get(rawFields.o[key], "displayName")),
                          type |-> OptString(Get(rawFields.o[key], "type"))])]
         IN IF Cardinality(DOMAIN fields) > 0 THEN Obj(fields) ELSE Undefined

\* the constant siteIdDescription, evaluated once when the module is loaded
siteIdDescription ==
    LET default == ToStr(Nullish(loadEnv.WEBFLOW_SITE_ID, Str("")))
    IN IF default # ""
       THEN <<" If not provided, defaults to the configured site: ", default, ".">>
       ELSE <<>>

(***************************************************************************)
(* The steps of an executor.  A synchronous run of execute ends either by  *)
(* returning the result (or raising to the caller), or at an awaited       *)
(* fetch, with the request handed to fetch and the locals it keeps.        *)
(***************************************************************************)
Return(result) == [done |-> TRUE, result |-> result]
Raise(e) == [done |-> TRUE, result |-> [raised |-> e]]    \* no result: e escapes
Await(request, resolvedSiteId, scriptId) ==
    [done |-> FALSE, request |-> request,
     resolvedSiteId |-> resolvedSiteId, scriptId |-> scriptId]

(***************************************************************************)
(* src/tools/index.ts: what the list tools share                           *)
(***************************************************************************)
\* a catch block that reads error.message of whatever was thrown
MessageOfAnyThrown(error, fallback) ==
    IF error.isError THEN error.message ELSE <<>>

\* error instanceof Error ? error.message : fallback
MessageOf(error, fallback) == IF error.isError THEN error.message ELSE fallback

\* (response[key] ?? []) as the array that .map is called on; reading a
\* property of null, mapping a non-array or reading a property of a null
\* item throws a TypeError
RawList(response, key) ==
    IF response.t # "object"
    THEN Throw(Error(<<"Cannot read properties of null (reading '", key, "')">>))
    ELSE LET raw == Nullish(Get(response, key), Arr(<<>>))
         IN IF raw.t # "array"
            THEN Throw(Error(<<key, ".map is not a function">>))
            ELSE IF \E k \in 1..Len(raw.a) : raw.a[k].t # "object"
            THEN Throw(Error(<<"Cannot read properties of null">>))
            ELSE Ok(raw.a)

\* Number(v)
NaN == [t |-> "NaN"]
ToNumber(v) ==
    CASE v.t = "number" -> v
      [] v.t = "boolean" -> Num(IF v.b THEN 1 ELSE 0)
      [] v.t = "null" -> Num(0)
      [] v.t = "string" /\ v.s = "" -> Num(0)
      [] OTHER -> NaN

\* a pagination envelope built whether or not the response has one
PaginationOfAlways(response) ==
    LET pagination == Nullish(Get(response, "pagination"), Obj(EmptyRec))
    IN Obj([limit |-> ToNumber(Nullish(Get(pagination, "limit"), Num(0))),
            offset |-> ToNumber(Nullish(Get(pagination, "offset"), Num(0))),
            total |-> ToNumber(Nullish(Get(pagination, "total"), Num(0)))])

\* pagination ? {limit, offset, total} : undefined
PaginationOf(response) ==
    LET pagination == Get(response, "pagination")
    IN IF Truthy(pagination)
       THEN Obj([limit |-> ToNumber(Nullish(Get(pagination, "limit"), Num(0))),
                 offset |-> ToNumber(Nullish(Get(pagination, "offset"), Num(0))),
                 total |-> ToNumber(Nullish(Get(pagination, "total"), Num(0)))])
       ELSE Undefined

\* domains?.map((d) => ({id: String(d.id ?? ""), url: String(d.url ?? "")}))
DomainsOf(domains) ==
    IF domains.t \in {"undefined", "null"} THEN Undefined
    ELSE Arr([k \in 1..Len(domains.a) |->
                 Obj([id |-> StringOrEmpty(Get(domains.a[k], "id")),
                      url |-> StringOrEmpty(Get(domains.a[k], "url"))])])

(***************************************************************************)
(* src/tools/index.ts: listSites                                           *)
(***************************************************************************)
listSitesCatch(error) ==
    Return([sites |-> <<>>, count |-> 0,
            error |-> MessageOf(error, <<"Failed to list sites">>)])

SiteOf(raw) ==
    [id |-> StringOrEmpty(Get(raw, "id")),
     displayName |-> StringOrEmpty(Get(raw, "displayName")),
     shortName |-> StringOrEmpty(Get(raw, "shortName")),
     lastPublished |-> getStringField(raw, "last_published", "lastPublished"),
     lastUpdated |-> getStringField(raw, "last_updated", "lastUpdated"),
     previewUrl |-> OptString(Get(raw, "previewUrl")),
     timeZone |-> OptString(Get(raw, "timeZone")),
     designerUrl |-> <<"https://", ToStr(Get(raw, "shortName")), ".design.webflow.com">>,
     settingsUrl |-> <<"https://webflow.com/dashboard/sites/",
                       ToStr(Get(raw, "shortName")), "/general">>,
     customDomains |-> DomainsOf(Get(raw, "customDomains"))]

listSitesStart(args) ==
    LET req == callApiRequest(<<"/sites">>, "GET", Undefined, EmptyRec)
    IN IF ~req.ok THEN listSitesCatch(req.e) ELSE Await(req.v, "", "")

listSitesSettled(outcome) ==
    LET response == callApiResponse(outcome)
        rawSites == RawList(response.v, "sites")
        sites == [k \in 1..Len(rawSites.v) |-> SiteOf(rawSites.v[k])]
    IN IF ~response.ok THEN listSitesCatch(response.e)
       ELSE IF ~rawSites.ok THEN listSitesCatch(rawSites.e)
       ELSE Return([sites |-> sites, count |-> Len(sites)])

(***************************************************************************)
(* src/tools/index.ts: publishSite                                         *)
(***************************************************************************)
publishSiteCatch(error) ==
    Return([success |-> FALSE,
            error |-> MessageOf(error, <<"Failed to publish site">>)])

\* a body that passes publishToWebflowSubdomain on as it was given
PublishBodyNoDefault(customDomains, publishToWebflowSubdomain) ==
    IF Truthy(customDomains) /\ Len(customDomains.a) > 0
    THEN Obj([publishToWebflowSubdomain |-> publishToWebflowSubdomain,
              customDomains |-> customDomains])
    ELSE Obj([publishToWebflowSubdomain |-> publishToWebflowSubdomain])

\* the body of the publish request
PublishBody(customDomains, publishToWebflowSubdomain) ==
    IF Truthy(customDomains) /\ Len(customDomains.a) > 0
    THEN Obj([publishToWebflowSubdomain |->
                  Nullish(publishToWebflowSubdomain, Bool(FALSE)),
              customDomains |-> customDomains])
    ELSE Obj([publishToWebflowSubdomain |->
                  Nullish(publishToWebflowSubdomain, Bool(FALSE))])

publishSiteStart(args) ==
    LET site == resolveSiteId(args.siteId)
        req == callApiRequest(
                   <<"/sites/", site.v, "/publish">>, "POST",
                   PublishBody(args.customDomains, args.publishToWebflowSubdomain),
                   EmptyRec)
    IN IF ~site.ok THEN publishSiteCatch(site.e)
       ELSE IF ~req.ok THEN publishSiteCatch(req.e)
       ELSE Await(req.v, site.v, "")

publishSiteSettled(outcome) ==
    LET response == callApiResponse(outcome)
    IN IF ~response.ok THEN publishSiteCatch(response.e)
       ELSE IF response.v.t # "object"
       THEN publishSiteCatch(
                Error(<<"Cannot read properties of null (reading 'customDomains')">>))
       ELSE Return([success |-> TRUE,
                    publishedDomains |-> DomainsOf(Get(response.v, "customDomains"))])

(***************************************************************************)
(* src/tools/index.ts: listPages and updatePage                            *)
(***************************************************************************)
listPagesCatch(error) ==
    Return([pages |-> <<>>, count |-> 0,
            error |-> MessageOf(error, <<"Failed to list pages">>)])

PageOf(page) ==
    [id |-> StringOrEmpty(Get(page, "id")),
     title |-> StringOrEmpty(Get(page, "title")),
     slug |-> StringOrEmpty(Get(page, "slug")),
     archived |-> OptBoolean(Get(page, "archived")),
     draft |-> OptBoolean(Get(page, "draft")),
     createdOn |-> getStringField(page, "created_on", "createdOn"),
     lastUpdated |-> getStringField(page, "last_updated", "lastUpdated"),
     publishedPath |-> OptString(Get(page, "publishedPath")),
     seo |-> parseTitleDescription(Get(page, "seo")),
     openGraph |-> parseTitleDescription(Get(page, "openGraph"))]

listPagesStart(args) ==
    LET site == resolveSiteId(args.siteId)
        req == callApiRequest(<<"/sites/", site.v, "/pages">>, "GET", Undefined,
                              [limit |-> args.limit, offset |-> args.offset])
    IN IF ~site.ok THEN listPagesCatch(site.e)
       ELSE IF ~req.ok THEN listPagesCatch(req.e)
       ELSE Await(req.v, site.v, "")

\* listPages reporting the total of the pagination as its count
listPagesSettledTotalCount(outcome) ==
    LET response == callApiResponse(outcome)
        rawPages == RawList(response.v, "pages")
        pages == [k \in 1..Len(rawPages.v) |-> PageOf(rawPages.v[k])]
        pagination == PaginationOf(response.v)
    IN IF ~response.ok THEN listPagesCatch(response.e)
       ELSE IF ~rawPages.ok THEN listPagesCatch(rawPages.e)
       ELSE Return([pages |-> pages,
                    count |-> IF pagination = Undefined THEN Len(pages)
                              ELSE pagination.o.total.n,
                    pagination |-> pagination])

listPagesSettled(outcome) ==
    LET response == callApiResponse(outcome)
        rawPages == RawList(response.v, "pages")
        pages == [k \in 1..Len(rawPages.v) |-> PageOf(rawPages.v[k])]
    IN IF ~response.ok THEN listPagesCatch(response.e)
       ELSE IF ~rawPages.ok THEN listPagesCatch(rawPages.e)
       ELSE Return([pages |-> pages, count |-> Len(pages),
                    pagination |-> PaginationOf(response.v)])

\* a catch block that handles instances of Error only
updatePageCatchErrorsOnly(error) ==
    IF error.isError
    THEN Return([success |-> FALSE, error |-> error.message])
    ELSE Raise(error)

updatePageCatch(error) ==
    Return([success |-> FALSE,
            error |-> MessageOf(error, <<"Failed to update page">>)])

\* a body built from the fields that are truthy
UpdateBodyTruthyOnly(args) ==
    LET given == {k \in {"title", "slug", "seo", "openGraph"} : Truthy(args[k])}
    IN Obj([k \in given |-> args[k]])

\* the body of the update: the fields that are not undefined
UpdateBody(args) ==
    LET given == {k \in {"title", "slug", "seo", "openGraph"} : args[k] # Undefined}
    IN Obj([k \in given |-> args[k]])

updatePageStart(args) ==
    LET req == callApiRequest(<<"/pages/", ToStr(args.pageId)>>, "PUT",
                              UpdateBody(args), EmptyRec)
    IN IF ~req.ok THEN updatePageCatch(req.e) ELSE Await(req.v, "", "")

updatePageSettled(outcome) ==
    LET response == callApiResponse(outcome)
    IN IF ~response.ok THEN updatePageCatch(response.e)
       ELSE IF response.v.t # "object"
       THEN updatePageCatch(
                Error(<<"Cannot read properties of null (reading 'id')">>))
       ELSE Return([success |-> TRUE, page |-> PageOf(response.v)])

(***************************************************************************)
(* src/tools/index.ts: listForms and listFormSubmissions                   *)
(***************************************************************************)
listFormsCatch(error) ==
    Return([forms |-> <<>>, count |-> 0,
            error |-> MessageOf(error, <<"Failed to list forms">>)])

FormOf(form) ==
    [id |-> StringOrEmpty(Get(form, "id")),
     displayName |-> StringOrEmpty(Get(form, "displayName")),
     pageId |-> OptString(Get(form, "pageId")),
     pageName |-> OptString(Get(form, "pageName")),
     formElementId |-> getStringField(form, "form_element_id", "formElementId"),
     fields |-> parseFormFields(Get(form, "fields")),
     createdOn |-> getStringField(form, "created_on", "createdOn"),
     lastUpdated |-> getStringField(form, "last_updated", "lastUpdated")]

listFormsStart(args) ==
    LET site == resolveSiteId(args.siteId)
        req == callApiRequest(<<"/sites/", site.v, "/forms">>, "GET", Undefined,
                              [limit |-> args.limit, offset |-> args.offset])
    IN IF ~site.ok THEN listFormsCatch(site.e)
       ELSE IF ~req.ok THEN listFormsCatch(req.e)
       ELSE Await(req.v, site.v, "")

listFormsSettled(outcome) ==
    LET response == callApiResponse(outcome)
        rawForms == RawList(response.v, "forms")
        forms == [k \in 1..Len(rawForms.v) |-> FormOf(rawForms.v[k])]
    IN IF ~response.ok THEN listFormsCatch(response.e)
       ELSE IF ~rawForms.ok THEN listFormsCatch(rawForms.e)
       ELSE Return([forms |-> forms, count |-> Len(forms),
                    pagination |-> PaginationOf(response.v)])

listFormSubmissionsCatch(error) ==
    Return([formSubmissions |-> <<>>, count |-> 0,
            error |-> MessageOf(error, <<"Failed to list form submissions">>)])

SubmissionOf(submission) ==
    [id |-> StringOrEmpty(Get(submission, "id")),
     displayName |-> OptString(Get(submission, "displayName")),
     dateSubmitted |-> getStringField(submission, "date_submitted", "dateSubmitted"),
     formResponse |-> Nullish(Get(submission, "formResponse"), Obj(EmptyRec))]

listFormSubmissionsStart(args) ==
    LET site == resolveSiteId(args.siteId)
        req == callApiRequest(
                   <<"/sites/", site.v, "/form_submissions">>, "GET", Undefined,
                   [elementId |-> args.elementId, limit |-> args.limit,
                    offset |-> args.offset])
    IN IF ~site.ok THEN listFormSubmissionsCatch(site.e)
       ELSE IF ~req.ok THEN listFormSubmissionsCatch(req.e)
       ELSE Await(req.v, site.v, "")

listFormSubmissionsSettled(outcome) ==
    LET response == callApiResponse(outcome)
        rawSubmissions == RawList(response.v, "formSubmissions")
        formSubmissions ==
            [k \in 1..Len(rawSubmissions.v) |-> SubmissionOf(rawSubmissions.v[k])]
    IN IF ~response.ok THEN listFormSubmissionsCatch(response.e)
       ELSE IF ~rawSubmissions.ok THEN listFormSubmissionsCatch(rawSubmissions.e)
       ELSE Return([formSubmissions |-> formSubmissions,
                    count |-> Len(formSubmissions),
                    pagination |-> PaginationOf(response.v)])

(***************************************************************************)
(* src/tools/index.ts: listCustomCode                                      *)
(***************************************************************************)
listCustomCodeCatch(error) ==
    Return([blocks |-> <<>>, count |-> 0,
            error |-> MessageOf(error, <<"Failed to list custom code">>)])

ScriptOf(script) ==
    Obj([id |-> StringOrEmpty(Get(script, "id")),
         location |-> StringOrEmpty(Get(script, "location")),
         version |-> StringOrEmpty(Get(script, "version"))])

BlockOf(block) ==
    LET rawScripts == Nullish(Get(block, "scripts"), Arr(<<>>))
    IN [siteId |-> StringOrEmpty(Get(block, "siteId")),
        pageId |-> OptString(Get(block, "pageId")),
        type |-> OptString(Get(block, "type")),
        scripts |-> Arr([k \in 1..Len(rawScripts.a) |-> ScriptOf(rawScripts.a[k])]),
        createdOn |-> getStringField(block, "created_on", "createdOn"),
        lastUpdated |-> getStringField(block, "last_updated", "lastUpdated")]

listCustomCodeStart(args) ==
    LET site == resolveSiteId(args.siteId)
        req == callApiRequest(
                   <<"/sites/", site.v, "/custom_code/blocks">>, "GET", Undefined,
                   [limit |-> args.limit, offset |-> args.offset])
    IN IF ~site.ok THEN listCustomCodeCatch(site.e)
       ELSE IF ~req.ok THEN listCustomCodeCatch(req.e)
       ELSE Await(req.v, site.v, "")

listCustomCodeSettled(outcome) ==
    LET response == callApiResponse(outcome)
        rawBlocks == RawList(response.v, "blocks")
        blocks == [k \in 1..Len(rawBlocks.v) |-> BlockOf(rawBlocks.v[k])]
    IN IF ~response.ok THEN listCustomCodeCatch(response.e)
       ELSE IF ~rawBlocks.ok THEN listCustomCodeCatch(rawBlocks.e)
       ELSE Return([blocks |-> blocks, count |-> Len(blocks),
                    pagination |-> PaginationOf(response.v)])

(***************************************************************************)
(* src/tools/index.ts: addCustomCode                                       *)
(***************************************************************************)
CharLimit == 2000

\* the pageId test as pageId === undefined
MissingPageIdStrict(target, pageId) == target = "page" /\ pageId = Undefined

\* target === "page" && !pageId
MissingPageId(target, pageId) == target = "page" /\ ~Truthy(pageId)

\* the size test as sourceCode.length >= 2000
ExceedsLimitInclusive(sourceCode) == Length(sourceCode) >= CharLimit

\* sourceCode.length > 2000
ExceedsLimit(sourceCode) == Length(sourceCode) > CharLimit

PageIdRequired ==
    <<"A pageId is required when target is \"page\". Use listPages to find page IDs.">>

LimitExceeded(sourceCode) ==
    <<"Script exceeds the 2000 character limit (", ToString(Length(sourceCode)),
      " characters). Consider hosting the script externally.">>

NoScriptId == <<"Failed to register script: no script ID returned">>

\* the catch block of addCustomCode.execute
addCustomCodeCatch(error) ==
    Return([success |-> FALSE,
            scriptId |-> "",
            error |-> MessageOf(error, <<"Failed to add custom code">>)])

\* the script id as String(registered.id)
ScriptIdOfNoDefault(registered) == ToStr(Get(registered, "id"))

\* const scriptId = String(registered.id ?? "")
ScriptIdOf(registered) == ToStr(Nullish(Get(registered, "id"), Str("")))

\* the test of the script id left out
EmptyScriptIdUnchecked(scriptId) == FALSE

\* !scriptId
EmptyScriptId(scriptId) == scriptId = ""

\* appliedTo naming the site whatever the target
AppliedToSiteOnly(args, resolvedSiteId) == <<"site:", resolvedSiteId>>

\* the appliedTo descriptor of a success
AppliedTo(args, resolvedSiteId) ==
    IF args.target = "page"
    THEN <<"page:", ToStr(args.pageId)>>
    ELSE <<"site:", resolvedSiteId>>

\* ApplyPath choosing the page endpoint whenever a pageId is supplied
ApplyPathByPageId(args, resolvedSiteId) ==
    IF Truthy(args.pageId)
    THEN <<"/pages/", ToStr(args.pageId), "/custom_code">>
    ELSE <<"/sites/", resolvedSiteId, "/custom_code">>

\* the endpoint of step 2
ApplyPath(args, resolvedSiteId) ==
    IF args.target = "page" /\ Truthy(args.pageId)
    THEN <<"/pages/", ToStr(args.pageId), "/custom_code">>
    ELSE <<"/sites/", resolvedSiteId, "/custom_code">>

\* the payload of step 2
ScriptPayload(args, scriptId) ==
    Obj([scripts |-> Arr(<<Obj([id |-> Str(scriptId),
                                location |-> Str(args.location),
                                version |-> Str(args.version)])>>)])

\* addCustomCodeStart with the size check before the pageId check
addCustomCodeStartSizeFirst(args) ==
    IF ExceedsLimit(args.sourceCode)
    THEN Return([success |-> FALSE, scriptId |-> "",
                 error |-> LimitExceeded(args.sourceCode)])
    ELSE IF MissingPageId(args.target, args.pageId)
    THEN Return([success |-> FALSE, scriptId |-> "", error |-> PageIdRequired])
    ELSE LET site == resolveSiteId(args.siteId)
             req == callApiRequest(
                        <<"/sites/", site.v, "/registered_scripts/inline">>,
                        "POST",
                        Obj([sourceCode |-> args.sourceCode,
                             version |-> Str(args.version),
                             displayName |-> Str(args.displayName)]),
                        EmptyRec)
         IN IF ~site.ok THEN addCustomCodeCatch(site.e)
            ELSE IF ~req.ok THEN addCustomCodeCatch(req.e)
            ELSE Await(req.v, site.v, "")

\* execute from its entry to the fetch of step 1
addCustomCodeStart(args) ==
    IF MissingPageId(args.target, args.pageId)
    THEN Return([success |-> FALSE, scriptId |-> "", error |-> PageIdRequired])
    ELSE IF ExceedsLimit(args.sourceCode)
    THEN Return([success |-> FALSE, scriptId |-> "",
                 error |-> LimitExceeded(args.sourceCode)])
    ELSE LET site == resolveSiteId(args.siteId)
             req == callApiRequest(
                        <<"/sites/", site.v, "/registered_scripts/inline">>,
                        "POST",
                        Obj([sourceCode |-> args.sourceCode,
                             version |-> Str(args.version),
                             displayName |-> Str(args.displayName)]),
                        EmptyRec)
         IN IF ~site.ok THEN addCustomCodeCatch(site.e)
            ELSE IF ~req.ok THEN addCustomCodeCatch(req.e)
            ELSE Await(req.v, site.v, "")

\* execute from the settling of step 1 to the fetch of step 2
addCustomCodeRegistered(args, resolvedSiteId, outcome) ==
    LET registered == callApiResponse(outcome)
        scriptId == ScriptIdOf(registered.v)
        req == callApiRequest(ApplyPath(args, resolvedSiteId), "PUT",
                              ScriptPayload(args, scriptId), EmptyRec)
    IN IF ~registered.ok THEN addCustomCodeCatch(registered.e)
       ELSE IF registered.v.t = "null"
       THEN addCustomCodeCatch(
                Error(<<"Cannot read properties of null (reading 'id')">>))
       ELSE IF EmptyScriptId(scriptId)
       THEN Return([success |-> FALSE, scriptId |-> "", error |-> NoScriptId])
       ELSE IF ~req.ok THEN addCustomCodeCatch(req.e)
       ELSE Await(req.v, resolvedSiteId, scriptId)

\* addCustomCodeApplied sending step 2 again when it failed
addCustomCodeAppliedRetry(args, resolvedSiteId, scriptId, outcome) ==
    LET applied == callApiResponse(outcome)
        req == callApiRequest(ApplyPath(args, resolvedSiteId), "PUT",
                              ScriptPayload(args, scriptId), EmptyRec)
    IN IF ~applied.ok THEN Await(req.v, resolvedSiteId, scriptId)
       ELSE Return([success |-> TRUE,
                    scriptId |-> scriptId,
                    appliedTo |-> AppliedTo(args, resolvedSiteId)])

\* execute from the settling of step 2 to its return
addCustomCodeApplied(args, resolvedSiteId, scriptId, outcome) ==
    LET applied == callApiResponse(outcome)
    IN IF ~applied.ok THEN addCustomCodeCatch(applied.e)
       ELSE Return([success |-> TRUE,
                    scriptId |-> scriptId,
                    appliedTo |-> AppliedTo(args, resolvedSiteId)])

(***************************************************************************)
(* src/tools/index.ts: the declared input shapes (inputSchema) and the     *)
(* approval flags of the tool definitions.                                 *)
(***************************************************************************)
\* z.number().min(1).max(100)
MinLimit == 1
MaxLimit == 100

\* z.string().optional()
OptionalString(v) == v.t \in {"undefined", "string"}

\* z.number().optional()
OptionalNumber(v) == v.t \in {"undefined", "number"}

\* a limit that min(1) accepts although it is below 1
LimitConformsNoMin(limit) ==
    \/ limit.t = "undefined"
    \/ limit.t = "number" /\ limit.n <= MaxLimit

\* z.number().min(1).max(100).optional()
LimitConforms(limit) ==
    \/ limit.t = "undefined"
    \/ limit.t = "number" /\ limit.n >= MinLimit /\ limit.n <= MaxLimit

\* z.object({siteId, limit, offset}) of listPages, listForms, listCustomCode
ListInputConforms(input) ==
    /\ OptionalString(input.siteId)
    /\ LimitConforms(input.limit)
    /\ OptionalNumber(input.offset)

\* z.object({siteId, customDomains, publishToWebflowSubdomain}): each field
\* is optional and no refinement relates them
publishSiteConforms(input) ==
    /\ OptionalString(input.siteId)
    /\ input.customDomains.t \in {"undefined", "array"}
    /\ input.publishToWebflowSubdomain.t \in {"undefined", "boolean"}

updatePageConforms(input) ==
    /\ input.pageId.t = "string"
    /\ OptionalString(input.title)
    /\ OptionalString(input.slug)
    /\ input.seo.t \in {"undefined", "object"}
    /\ input.openGraph.t \in {"undefined", "object"}

addCustomCodeConforms(input) ==
    /\ OptionalString(input.siteId)
    /\ input.target \in {"site", "page"}
    /\ OptionalString(input.pageId)
    /\ input.sourceCode.t = "string"
    /\ input.location \in {"header", "footer"}

\* the input conforms to the inputSchema of the tool
Conforms(tool, input) ==
    CASE tool = "listSites" -> TRUE
      [] tool = "publishSite" -> publishSiteConforms(input)
      [] tool = "updatePage" -> updatePageConforms(input)
      [] tool = "listFormSubmissions" ->
            ListInputConforms(input) /\ OptionalString(input.elementId)
      [] tool = "addCustomCode" -> addCustomCodeConforms(input)
      [] OTHER -> ListInputConforms(input)

\* a tool set in which only publishSite asks for approval
needsApprovalPublishOnly(tool) == tool = "publishSite"

\* needsApproval: true of the tool definition
needsApproval(tool) ==
    CASE tool = "publishSite" -> TRUE
      [] tool = "updatePage" -> TRUE
      [] tool = "addCustomCode" -> TRUE
      [] OTHER -> FALSE

(***************************************************************************)
(* The inputs of the model: validated arguments and upstream behaviour.    *)
(***************************************************************************)
EnvValues(name) == {Undefined, Str(""), Str(name)}

SiteIdArgs == {Undefined, Str(""), Str("site-1")}
PageIdArgs == {Undefined, Str(""), Str("page-1")}
SourceCodes == {XRepeat(n) : n \in {1} \cup ((CharLimit - 1)..(CharLimit + MaxOver))}

addCustomCodeArgs ==
    [siteId : SiteIdArgs, target : {"site", "page"}, pageId : PageIdArgs,
     sourceCode : SourceCodes, displayName : {"Hello Script"},
     version : {"1.0.0"}, location : {"header", "footer"}]

listSitesArgs == {EmptyRec}

publishSiteArgs ==
    [siteId : SiteIdArgs,
     customDomains : {Undefined, Arr(<<>>), Arr(<<Str("domain-1")>>)},
     publishToWebflowSubdomain : {Undefined, Bool(TRUE), Bool(FALSE)}]

\* limit and offset within the declared input shape
LimitArgs == {Undefined, Num(10)}
OffsetArgs == {Undefined, Num(0)}

listPagesArgs == [siteId : SiteIdArgs, limit : LimitArgs, offset : OffsetArgs]
listFormsArgs == listPagesArgs
listCustomCodeArgs == listPagesArgs
listFormSubmissionsArgs ==
    [siteId : SiteIdArgs, elementId : {Undefined, Str(""), Str("element-1")},
     limit : LimitArgs, offset : OffsetArgs]

updatePageArgs ==
    [pageId : {Str("page-1")},
     title : {Undefined, Str(""), Str("About Us")},
     slug : {Undefined, Str("about-us")},
     seo : {Undefined, Obj([title |-> Str("About Our Company")])},
     openGraph : {Undefined, Obj(EmptyRec)}]

\* the limits a tool call may carry: omitted, and the values at and beyond
\* both ends of the declared range
LimitInputs ==
    {Undefined, Num(MinLimit - 1), Num(MinLimit), Num(MaxLimit),
     Num(MaxLimit + 1)}

listPagesInputs == [siteId : SiteIdArgs, limit : LimitInputs, offset : OffsetArgs]
listFormSubmissionsInputs ==
    [siteId : SiteIdArgs, elementId : {Undefined, Str("element-1")},
     limit : LimitInputs, offset : OffsetArgs]

\* the failures of a fetch
FetchFailures ==
    {FetchBadJson,
     FetchHttp(400, "{\"message\":\"Bad Request\"}"),
     FetchHttp(404, "{\"message\":\"Not Found\"}"),
     FetchHttp(500, "Internal Server Error"),
     FetchReject(Error(<<"fetch failed">>)),
     FetchReject(NonError)}

\* the JSON bodies of a registration response
RegisterBodies ==
    {Null, Obj(EmptyRec)}
    \cup {Obj([id |-> v]) : v \in {Null, Str(""), Str("script-123"), Num(0), Num(7)}}

ApplyBodies == {Null, Obj(EmptyRec)}

RawDomain == Obj([id |-> Str("domain-1"), url |-> Str("example.com")])

RawSites ==
    <<Obj([id |-> Str("site-1"), displayName |-> Str("My Site"),
           shortName |-> Str("my-site"), lastPublished |-> Str("2024-01-01"),
           previewUrl |-> Str("https://preview.example"),
           customDomains |-> Arr(<<RawDomain>>)]),
      Obj([id |-> Num(2), last_published |-> Str("X"), lastPublished |-> Str("Y"),
           last_updated |-> Str(""), lastUpdated |-> Str("Z")])>>

RawPages ==
    <<Obj([id |-> Str("page-1"), title |-> Str("Home"), slug |-> Str("home"),
           archived |-> Bool(FALSE), draft |-> Str("no"),
           createdOn |-> Str("2024-01-01"),
           seo |-> Obj([title |-> Str("T")]), openGraph |-> Obj(EmptyRec)]),
      Obj([id |-> Str("page-2"), seo |-> Null])>>

RawForms ==
    <<Obj([id |-> Str("form-1"), displayName |-> Str("Contact"),
           pageId |-> Str("page-1"), formElementId |-> Str("element-1"),
           fields |-> Obj([name |-> Obj([displayName |-> Str("Name"),
                                         type |-> Str("Plain")])])]),
      Obj([id |-> Str("form-2"), fields |-> Obj(EmptyRec)])>>

RawSubmissions ==
    <<Obj([id |-> Str("sub-1"), displayName |-> Str("Contact"),
           dateSubmitted |-> Str("2024-01-01"),
           formResponse |-> Obj([email |-> Str("a@example.com")])]),
      Obj([id |-> Str("sub-2")])>>

RawBlocks ==
    <<Obj([siteId |-> Str("site-1"), type |-> Str("site"),
           scripts |-> Arr(<<Obj([id |-> Str("script-123"),
                                  location |-> Str("header"),
                                  version |-> Str("1.0.0")])>>)]),
      Obj([siteId |-> Str("site-1"), pageId |-> Str("page-1")])>>

RawPaginations ==
    {Obj([limit |-> Num(10), offset |-> Num(0), total |-> Num(2)]),
     Obj([total |-> Num(2)]), Obj(EmptyRec), Null}

\* the JSON bodies of a list response: null, no list, a null list, a list
\* that is no array, a list holding null, and lists of 0, 1 and 2 items, the
\* last two with and without pagination
ListBodies(key, items) ==
    {Null, Obj(EmptyRec), Obj(key :> Null), Obj(key :> Str("none")),
     Obj(key :> Arr(<<Null>>)), Obj(key :> Arr(<<>>)),
     Obj(key :> Arr(SubSeq(items, 1, 1))), Obj(key :> Arr(items))}
    \cup {Obj((key :> Arr(SubSeq(items, 1, n))) @@ [pagination |-> p]) :
             n \in 1..2, p \in RawPaginations}

PublishBodies ==
    {Null, Obj(EmptyRec), Obj([customDomains |-> Arr(<<RawDomain>>)])}

UpdateBodies == {Null, Obj(EmptyRec), RawPages[1], RawPages[2]}

\* how the fetch of a tool's request number n may settle
Bodies(tool, n) ==
    CASE tool = "listSites" -> ListBodies("sites", RawSites)
      [] tool = "publishSite" -> PublishBodies
      [] tool = "listPages" -> ListBodies("pages", RawPages)
      [] tool = "updatePage" -> UpdateBodies
      [] tool = "listForms" -> ListBodies("forms", RawForms)
      [] tool = "listFormSubmissions" ->
            ListBodies("formSubmissions", RawSubmissions)
      [] tool = "listCustomCode" -> ListBodies("blocks", RawBlocks)
      [] tool = "addCustomCode" /\ n = 1 -> RegisterBodies
      [] OTHER -> ApplyBodies

Outcomes(tool, n) == FetchFailures \cup {FetchOk(b) : b \in Bodies(tool, n)}

Tools ==
    {"listSites", "publishSite", "listPages", "updatePage", "listForms",
     "listFormSubmissions", "listCustomCode", "addCustomCode"}

\* the tools whose input has a siteId
SiteTools == Tools \ {"listSites", "updatePage"}

ArgsOf(tool) ==
    CASE tool = "listSites" -> listSitesArgs
      [] tool = "publishSite" -> publishSiteArgs
      [] tool = "listPages" -> listPagesArgs
      [] tool = "updatePage" -> updatePageArgs
      [] tool = "listForms" -> listFormsArgs
      [] tool = "listFormSubmissions" -> listFormSubmissionsArgs
      [] tool = "listCustomCode" -> listCustomCodeArgs
      [] tool = "addCustomCode" -> addCustomCodeArgs

\* the inputs a tool call may carry, conforming or not
InputsOf(tool) ==
    CASE tool \in {"listPages", "listForms", "listCustomCode"} -> listPagesInputs
      [] tool = "listFormSubmissions" -> listFormSubmissionsInputs
      [] OTHER -> ArgsOf(tool)

(***************************************************************************)
(* The state machine.                                                      *)
(***************************************************************************)
NoArgs == [none |-> TRUE]
NoResult == [pending |-> TRUE]

IdleInv ==
    [pc |-> "idle", tool |-> "", args |-> NoArgs,
     calls |-> <<>>,       \* the requests handed to fetch, in order
     outcomes |-> <<>>,    \* how those fetches settled, in order
     resolvedSiteId |-> "", scriptId |-> "",
     approved |-> FALSE,   \* the user approved the tool call
     result |-> NoResult]

Init ==
    /\ env \in [WEBFLOW_API_KEY : EnvValues("test-api-key"),
                WEBFLOW_SITE_ID : EnvValues("test-site-id")]
    /\ loadEnv = env
    /\ inv = [i \in Slots |-> IdleInv]

\* After sending the last request again when the run ended in a failure
AfterRetry(cur, step) ==
    IF step.done
    THEN IF "error" \in DOMAIN step.result /\ Len(cur.calls) \in 1..2
         THEN [cur EXCEPT !.calls = Append(@, cur.calls[Len(cur.calls)])]
         ELSE [cur EXCEPT !.pc = "done", !.result = step.result]
    ELSE [cur EXCEPT !.pc = IF cur.pc = "fetch1" THEN "fetch2" ELSE "fetch1",
                     !.calls = Append(@, step.request),
                     !.resolvedSiteId = step.resolvedSiteId,
                     !.scriptId = step.scriptId]

\* the state of an invocation after a synchronous run that ended in step
After(cur, step) ==
    IF step.done
    THEN [cur EXCEPT !.pc = "done", !.result = step.result]
    ELSE [cur EXCEPT !.pc = IF cur.pc = "fetch1" THEN "fetch2" ELSE "fetch1",
                     !.calls = Append(@, step.request),
                     !.resolvedSiteId = step.resolvedSiteId,
                     !.scriptId = step.scriptId]

\* execute from its entry to its first await (or its return)
Start(tool, args) ==
    CASE tool = "listSites" -> listSitesStart(args)
      [] tool = "publishSite" -> publishSiteStart(args)
      [] tool = "listPages" -> listPagesStart(args)
      [] tool = "updatePage" -> updatePageStart(args)
      [] tool = "listForms" -> listFormsStart(args)
      [] tool = "listFormSubmissions" -> listFormSubmissionsStart(args)
      [] tool = "listCustomCode" -> listCustomCodeStart(args)
      [] tool = "addCustomCode" -> addCustomCodeStart(args)

\* Resume1 with the arguments of addCustomCode kept in one place shared by
\* all invocations: step 2 is built from another invocation's arguments
Resume1SharedArgs(cur, outcome) ==
    CASE cur.tool = "listSites" -> listSitesSettled(outcome)
      [] cur.tool = "publishSite" -> publishSiteSettled(outcome)
      [] cur.tool = "listPages" -> listPagesSettled(outcome)
      [] cur.tool = "updatePage" -> updatePageSettled(outcome)
      [] cur.tool = "listForms" -> listFormsSettled(outcome)
      [] cur.tool = "listFormSubmissions" -> listFormSubmissionsSettled(outcome)
      [] cur.tool = "listCustomCode" -> listCustomCodeSettled(outcome)
      [] cur.tool = "addCustomCode" ->
            LET others == {j \in DOMAIN inv : /\ inv[j].tool = "addCustomCode"
                                              /\ inv[j].args # cur.args}
                shared == IF others = {} THEN cur.args
                          ELSE inv[CHOOSE j \in others : TRUE].args
            IN addCustomCodeRegistered(shared, cur.resolvedSiteId, outcome)

\* execute from the settling of its first fetch
Resume1(cur, outcome) ==
    CASE cur.tool = "listSites" -> listSitesSettled(outcome)
      [] cur.tool = "publishSite" -> publishSiteSettled(outcome)
      [] cur.tool = "listPages" -> listPagesSettled(outcome)
      [] cur.tool = "updatePage" -> updatePageSettled(outcome)
      [] cur.tool = "listForms" -> listFormsSettled(outcome)
      [] cur.tool = "listFormSubmissions" -> listFormSubmissionsSettled(outcome)
      [] cur.tool = "listCustomCode" -> listCustomCodeSettled(outcome)
      [] cur.tool = "addCustomCode" ->
            addCustomCodeRegistered(cur.args, cur.resolvedSiteId, outcome)

\* execute from the settling of its second fetch
Resume2(cur, outcome) ==
    addCustomCodeApplied(cur.args, cur.resolvedSiteId, cur.scriptId, outcome)

\* execute answering a call from an earlier call with the same arguments
InvokeDeduplicated(i, tool, args) ==
    /\ inv[i].pc = "idle"
    /\ inv' = [inv EXCEPT ![i] =
                  IF \E j \in DOMAIN inv \ {i} :
                         inv[j].tool = tool /\ inv[j].args = args
                  THEN After([inv[i] EXCEPT !.tool = tool, !.args = args],
                             Return([success |-> TRUE]))
                  ELSE After([inv[i] EXCEPT !.tool = tool, !.args = args],
                             Start(tool, args))]
    /\ UNCHANGED <<env, loadEnv>>

\* the orchestrator calls tool.execute(args)
Invoke(i, tool, args) ==
    /\ inv[i].pc = "idle"
    /\ inv' = [inv EXCEPT ![i] =
                  After([inv[i] EXCEPT !.tool = tool, !.args = args],
                        Start(tool, args))]
    /\ UNCHANGED <<env, loadEnv>>

\* the first fetch of invocation i settles
Settle1(i, outcome) ==
    /\ inv[i].pc = "fetch1"
    /\ inv' = [inv EXCEPT ![i] =
                  After([inv[i] EXCEPT !.outcomes = Append(@, outcome)],
                        Resume1(inv[i], outcome))]
    /\ UNCHANGED <<env, loadEnv>>

\* the second fetch of invocation i settles
Settle2(i, outcome) ==
    /\ inv[i].pc = "fetch2"
    /\ inv' = [inv EXCEPT ![i] =
                  After([inv[i] EXCEPT !.outcomes = Append(@, outcome)],
                        Resume2(inv[i], outcome))]
    /\ UNCHANGED <<env, loadEnv>>

InvokeTool ==
    \E i \in DOMAIN inv, tool \in Tools : \E args \in ArgsOf(tool) :
        Invoke(i, tool, args)

SettleFirst ==
    \E i \in DOMAIN inv : \E outcome \in Outcomes(inv[i].tool, 1) :
        Settle1(i, outcome)

SettleSecond ==
    \E i \in DOMAIN inv : \E outcome \in Outcomes(inv[i].tool, 2) :
        Settle2(i, outcome)

Next == InvokeTool \/ SettleFirst \/ SettleSecond

Spec == Init /\ [][Next]_vars

(***************************************************************************)
(* Tool calls through the contract layer: the input of a call is checked   *)
(* against the tool's inputSchema, a tool with needsApproval waits for the *)
(* user's approval, and only then execute runs.                            *)
(***************************************************************************)
\* the invocation i as the tool call of tool with input
Called(i, tool, input) == [inv[i] EXCEPT !.tool = tool, !.args = input]

\* a tool call arrives: rejected when its input does not conform, held for
\* approval when the tool asks for it, executed otherwise
CallTool(i, tool, input) ==
    /\ inv[i].pc = "idle"
    /\ inv' = [inv EXCEPT ![i] =
                  IF ~Conforms(tool, input)
                  THEN [Called(i, tool, input) EXCEPT !.pc = "rejected"]
                  ELSE IF needsApproval(tool)
                  THEN [Called(i, tool, input) EXCEPT !.pc = "approval"]
                  ELSE After(Called(i, tool, input), Start(tool, input))]
    /\ UNCHANGED <<env, loadEnv>>

\* the user approves the call: execute runs
Approve(i) ==
    /\ inv[i].pc = "approval"
    /\ inv' = [inv EXCEPT ![i] =
                  After([inv[i] EXCEPT !.approved = TRUE],
                        Start(inv[i].tool, inv[i].args))]
    /\ UNCHANGED <<env, loadEnv>>

\* the user denies the call: execute never runs
Deny(i) ==
    /\ inv[i].pc = "approval"
    /\ inv' = [inv EXCEPT ![i].pc = "denied"]
    /\ UNCHANGED <<env, loadEnv>>

ReceiveToolCall ==
    \E i \in DOMAIN inv, tool \in Tools : \E input \in InputsOf(tool) :
        CallTool(i, tool, input)

ApproveToolCall == \E i \in DOMAIN inv : Approve(i)

DenyToolCall == \E i \in DOMAIN inv : Deny(i)

ToolCallNext ==
    \/ ReceiveToolCall
    \/ ApproveToolCall
    \/ DenyToolCall
    \/ SettleFirst
    \/ SettleSecond

ToolCallSpec == Init /\ [][ToolCallNext]_vars

(***************************************************************************)
(* Invocations while the process configuration changes: process.env is     *)
(* assigned after the module was loaded (the tests stub it before each     *)
(* test), and two invocations may be under way.                            *)
(***************************************************************************)
ReconfiguredSlots == {"a", "b"}

\* the values a variable of the environment is set to
KeyValues == {Undefined, Str("test-api-key"), Str("rotated-api-key")}
SiteValues == {Undefined, Str("test-site-id"), Str("other-site-id")}

ReconfiguredInit ==
    /\ env \in [WEBFLOW_API_KEY : {Undefined, Str("test-api-key")},
                WEBFLOW_SITE_ID : {Undefined, Str("test-site-id")}]
    /\ loadEnv = env
    /\ inv = [i \in ReconfiguredSlots |-> IdleInv]

\* process.env[name] = value, or delete process.env[name]
SetEnv(name, value) ==
    /\ env[name] # value
    /\ env' = [env EXCEPT ![name] = value]
    /\ UNCHANGED <<loadEnv, inv>>

ReconfiguredTools == {"listSites", "listPages", "addCustomCode"}

ReconfiguredArgs(tool) ==
    CASE tool = "listSites" -> listSitesArgs
      [] tool = "listPages" ->
            [siteId : {Undefined, Str("site-1")}, limit : {Undefined},
             offset : {Undefined}]
      [] tool = "addCustomCode" ->
            [siteId : {Undefined}, target : {"site"}, pageId : {Undefined},
             sourceCode : {XRepeat(1)}, displayName : {"Hello Script"},
             version : {"1.0.0"}, location : {"header"}]

\* how the fetches settle: a success and an upstream error
ReconfiguredOutcomes ==
    {FetchOk(Obj([id |-> Str("script-123")])),
     FetchHttp(400, "{\"message\":\"Bad Request\"}")}

Reconfigure ==
    \/ \E value \in KeyValues : SetEnv("WEBFLOW_API_KEY", value)
    \/ \E value \in SiteValues : SetEnv("WEBFLOW_SITE_ID", value)

InvokeReconfigured ==
    \E i \in DOMAIN inv, tool \in ReconfiguredTools :
        \E args \in ReconfiguredArgs(tool) : Invoke(i, tool, args)

SettleFirstReconfigured ==
    \E i \in DOMAIN inv : \E outcome \in ReconfiguredOutcomes :
        Settle1(i, outcome)

SettleSecondReconfigured ==
    \E i \in DOMAIN inv : \E outcome \in ReconfiguredOutcomes :
        Settle2(i, outcome)

ReconfiguredNext ==
    \/ Reconfigure
    \/ InvokeReconfigured
    \/ SettleFirstReconfigured
    \/ SettleSecondReconfigured

ReconfiguredSpec == ReconfiguredInit /\ [][ReconfiguredNext]_vars

(***************************************************************************)
(* Two invocations under way at once, their fetches settling in any order. *)
(***************************************************************************)
ConcurrentSlots == {"a", "b"}

ConcurrentInit ==
    /\ env \in [WEBFLOW_API_KEY : {Undefined, Str("test-api-key")},
                WEBFLOW_SITE_ID : {Undefined, Str("test-site-id")}]
    /\ loadEnv = env
    /\ inv = [i \in ConcurrentSlots |-> IdleInv]

ConcurrentTools == {"publishSite", "addCustomCode"}

ConcurrentArgs(tool) ==
    CASE tool = "publishSite" ->
            [siteId : {Undefined, Str("site-1")},
             customDomains : {Undefined, Arr(<<Str("domain-1")>>)},
             publishToWebflowSubdomain : {Undefined, Bool(TRUE)}]
      [] tool = "addCustomCode" ->
            [siteId : {Str("site-1"), Str("site-2")}, target : {"site", "page"},
             pageId : {Str("page-1"), Str("page-2")}, sourceCode : {XRepeat(1)},
             displayName : {"Hello Script"}, version : {"1.0.0", "2.0.0"},
             location : {"header", "footer"}]

\* how the fetch number n of a tool settles
ConcurrentOutcomes(tool, n) ==
    {FetchHttp(400, "{\"message\":\"Bad Request\"}")}
    \cup CASE tool = "publishSite" ->
                 {FetchOk(Obj(EmptyRec)),
                  FetchOk(Obj([customDomains |-> Arr(<<RawDomain>>)]))}
           [] tool = "addCustomCode" /\ n = 1 ->
                 {FetchOk(Obj([id |-> Str("script-a")])),
                  FetchOk(Obj([id |-> Str("script-b")]))}
           [] OTHER -> {FetchOk(Obj(EmptyRec))}

InvokeConcurrent ==
    \E i \in DOMAIN inv, tool \in ConcurrentTools :
        \E args \in ConcurrentArgs(tool) : Invoke(i, tool, args)

SettleFirstConcurrent ==
    \E i \in DOMAIN inv : \E outcome \in ConcurrentOutcomes(inv[i].tool, 1) :
        Settle1(i, outcome)

SettleSecondConcurrent ==
    \E i \in DOMAIN inv : \E outcome \in ConcurrentOutcomes(inv[i].tool, 2) :
        Settle2(i, outcome)

ConcurrentNext ==
    \/ InvokeConcurrent
    \/ SettleFirstConcurrent
    \/ SettleSecondConcurrent

ConcurrentSpec == ConcurrentInit /\ [][ConcurrentNext]_vars

(***************************************************************************)
(* The helpers of src/lib/utils.ts called on their own: each call applies  *)
(* one helper to an input and keeps the value it returns.                  *)
(***************************************************************************)
\* the objects with any of the keys, each holding one of the values
ObjectsOver(keys, values) ==
    {Obj(f) : f \in UNION {[K -> values] : K \in SUBSET keys}}

\* the values of a field of an upstream record
FieldValues ==
    {Null, Str(""), Str("X"), Str("Y"), Num(0), Num(7), Bool(FALSE)}

getStringFieldInputs ==
    ObjectsOver({"last_published", "lastPublished"}, FieldValues)

parseTitleDescriptionInputs ==
    {Undefined, Null}
    \cup ObjectsOver({"title", "description"},
                     {Null, Str(""), Str("T"), Str("D"), Num(5)})

\* the raw descriptors of a form field
RawDescriptors ==
    ObjectsOver({"displayName", "type"}, {Null, Str(""), Str("Name"), Num(1)})

parseFormFieldsInputs ==
    {Undefined, Null} \cup ObjectsOver({"name", "email"}, RawDescriptors)

HelperInit ==
    /\ env = [WEBFLOW_API_KEY |-> Undefined, WEBFLOW_SITE_ID |-> Undefined]
    /\ loadEnv = env
    /\ inv = [i \in Slots |-> IdleInv]

\* helper(input) was called in slot i and returned value
Returned(i, helper, input, value) ==
    /\ inv[i].pc = "idle"
    /\ inv' = [inv EXCEPT ![i] =
                  [inv[i] EXCEPT !.pc = "done", !.tool = helper,
                                 !.args = [input |-> input],
                                 !.result = [value |-> value]]]
    /\ UNCHANGED <<env, loadEnv>>

CallGetStringField ==
    \E i \in DOMAIN inv, obj \in getStringFieldInputs :
        Returned(i, "getStringField", obj,
                 getStringField(obj, "last_published", "lastPublished"))

CallParseTitleDescription ==
    \E i \in DOMAIN inv, raw \in parseTitleDescriptionInputs :
        Returned(i, "parseTitleDescription", raw, parseTitleDescription(raw))

CallParseFormFields ==
    \E i \in DOMAIN inv, rawFields \in parseFormFieldsInputs :
        Returned(i, "parseFormFields", rawFields, parseFormFields(rawFields))

HelperNext ==
    \/ CallGetStringField
    \/ CallParseTitleDescription
    \/ CallParseFormFields

HelperSpec == HelperInit /\ [][HelperNext]_vars

(***************************************************************************)
(* Vocabulary of the properties.                                           *)
(***************************************************************************)
\* the invocations of addCustomCode that have been started
Added == {i \in DOMAIN inv : inv[i].tool = "addCustomCode"}

Finished(i) == inv[i].pc = "done"

\* the argument is absent or empty
NotSupplied(v) == v \in {Undefined, Str("")}

\* invocation i was called with target "page" and no pageId
PageWithoutId(i) ==
    inv[i].args.target = "page" /\ NotSupplied(inv[i].args.pageId)

\* invocation i was called with a sourceCode of more than 2000 characters
Oversized(i) == inv[i].args.sourceCode.xs > 2000

\* the result of i is a failure carrying an error
FailedResult(i) ==
    /\ DOMAIN inv[i].result = {"success", "scriptId", "error"}
    /\ inv[i].result.success = FALSE

\* the error of i is the size error, reporting n characters
SizeError(i, n) ==
    /\ "error" \in DOMAIN inv[i].result
    /\ Len(inv[i].result.error) = 3
    /\ inv[i].result.error[1] = "Script exceeds the 2000 character limit ("
    /\ inv[i].result.error[2] = ToString(n)

\* the error of i is a size error, whatever the length it reports
AnySizeError(i) ==
    /\ "error" \in DOMAIN inv[i].result
    /\ inv[i].result.error[1] = "Script exceeds the 2000 character limit ("

\* the fetch number n of i settled with a success response carrying an object
\* with a non-empty id
ReturnedId(i, n) ==
    /\ Len(inv[i].outcomes) >= n
    /\ inv[i].outcomes[n].k = "ok"
    /\ inv[i].outcomes[n].json.t = "object"
    /\ "id" \in DOMAIN inv[i].outcomes[n].json.o
    /\ inv[i].outcomes[n].json.o.id \notin {Null, Str("")}

\* the fetch number n of i settled with a success response carrying an object
\* whose id is empty or absent
ReturnedNoId(i, n) ==
    /\ Len(inv[i].outcomes) >= n
    /\ inv[i].outcomes[n].k = "ok"
    /\ inv[i].outcomes[n].json.t = "object"
    /\ \/ "id" \notin DOMAIN inv[i].outcomes[n].json.o
       \/ inv[i].outcomes[n].json.o.id \in {Null, Str("")}

\* the id of the registration response of i, as a string
RegisteredId(i) ==
    LET id == inv[i].outcomes[1].json.o.id
    IN IF id.t = "number" THEN ToString(id.n) ELSE id.s

\* the site an invocation is to act on: its siteId argument when supplied,
\* else the configured default
ExpectedSite(i) ==
    IF ~NotSupplied(inv[i].args.siteId) THEN inv[i].args.siteId.s
    ELSE IF env.WEBFLOW_SITE_ID = Undefined THEN ""
    ELSE env.WEBFLOW_SITE_ID.s

\* request r is the registration of an inline script on site
IsRegister(r, site) ==
    /\ r.method = "POST"
    /\ r.url = <<BASE_URL, "/sites/", site, "/registered_scripts/inline">>

\* request r applies scripts to a site or to a page
IsApply(r) ==
    /\ r.method = "PUT"
    /\ Len(r.url) = 4
    /\ r.url[2] \in {"/sites/", "/pages/"}
    /\ r.url[4] = "/custom_code"

(***************************************************************************)
(* C1: addCustomCode with target "page" and no pageId (absent or empty)    *)
(* returns a failure whose error is the pageId-is-required message and     *)
(* hands no request to fetch, whatever the other arguments.                *)
(***************************************************************************)
C1_PageIdRequired ==
    \A i \in Added :
        PageWithoutId(i) =>
            /\ Finished(i)
            /\ FailedResult(i)
            /\ inv[i].result.error = PageIdRequired
            /\ inv[i].calls = <<>>

C1_Witness ==
    \E i \in Added :
        /\ Finished(i) /\ PageWithoutId(i)
        /\ inv[i].args.pageId = Str("")
        /\ ~NotSupplied(inv[i].args.siteId)
        /\ ~Oversized(i)

(***************************************************************************)
(* C2 as stated: addCustomCode with a sourceCode of more than 2000         *)
(* characters returns a failure whose error reports the actual length and  *)
(* hands no request to fetch; 2000 characters exactly are not rejected by  *)
(* the size check.                                                         *)
(***************************************************************************)
C2_Original ==
    \A i \in Added :
        /\ Oversized(i) =>
              /\ Finished(i)
              /\ FailedResult(i)
              /\ SizeError(i, inv[i].args.sourceCode.xs)
              /\ inv[i].calls = <<>>
        /\ (inv[i].args.sourceCode.xs = 2000 /\ Finished(i)) => ~AnySizeError(i)

(***************************************************************************)
(* C2 amended: an oversized sourceCode always yields a failure with no     *)
(* request handed to fetch; the error reports the actual length unless the *)
(* call also has target "page" without a pageId; 2000 characters exactly   *)
(* are never rejected by the size check.                                   *)
(***************************************************************************)
C2_SizeLimit ==
    \A i \in Added :
        /\ Oversized(i) =>
              /\ Finished(i)
              /\ FailedResult(i)
              /\ inv[i].calls = <<>>
              /\ ~PageWithoutId(i) => SizeError(i, inv[i].args.sourceCode.xs)
        /\ (inv[i].args.sourceCode.xs = 2000 /\ Finished(i)) => ~AnySizeError(i)

C2_Witness ==
    \E i \in Added :
        /\ Finished(i) /\ Oversized(i) /\ ~PageWithoutId(i)
        /\ SizeError(i, 2001)

(***************************************************************************)
(* C3: when both preconditions are violated (target "page" without pageId  *)
(* and an oversized sourceCode) the error reported is the missing-pageId   *)
(* error, not the size error, and no request is handed to fetch.           *)
(***************************************************************************)
C3_PreconditionOrder ==
    \A i \in Added :
        (PageWithoutId(i) /\ Oversized(i)) =>
            /\ Finished(i)
            /\ inv[i].result.error = PageIdRequired
            /\ ~AnySizeError(i)
            /\ inv[i].calls = <<>>

C3_Witness ==
    \E i \in Added : Finished(i) /\ PageWithoutId(i) /\ Oversized(i)

(***************************************************************************)
(* C4: happy path.  When the registration returns a non-empty id and the   *)
(* application succeeds, exactly two requests were handed to fetch, the    *)
(* registration first and the application second, and the result is        *)
(* success true, scriptId the registered id, appliedTo "site:<resolved     *)
(* siteId>" or "page:<pageId>" by target, and no error.                    *)
(***************************************************************************)
C4_HappyPath ==
    \A i \in Added :
        (/\ ReturnedId(i, 1)
         /\ Len(inv[i].outcomes) = 2
         /\ inv[i].outcomes[2].k = "ok") =>
            /\ Finished(i)
            /\ Len(inv[i].calls) = 2
            /\ IsRegister(inv[i].calls[1], ExpectedSite(i))
            /\ IsApply(inv[i].calls[2])
            /\ DOMAIN inv[i].result = {"success", "scriptId", "appliedTo"}
            /\ inv[i].result.success = TRUE
            /\ inv[i].result.scriptId = RegisteredId(i)
            /\ inv[i].result.appliedTo =
                  IF inv[i].args.target = "page"
                  THEN <<"page:", inv[i].args.pageId.s>>
                  ELSE <<"site:", ExpectedSite(i)>>

C4_Witness ==
    \E i \in Added :
        /\ Finished(i)
        /\ inv[i].result.success
        /\ inv[i].args.target = "page"
        /\ inv[i].result.appliedTo = <<"page:", "page-1">>
        /\ inv[i].result.scriptId = "script-123"

(***************************************************************************)
(* C5: the apply request (step 2) is handed to fetch only after the        *)
(* register request (step 1) has settled with a success carrying a         *)
(* non-empty script id; at most one request of an invocation is in flight  *)
(* at any time, and no step 2 exists after a failed step 1.                *)
(***************************************************************************)
C5_ApplyAfterRegister ==
    \A i \in Added :
        /\ Len(inv[i].calls) - Len(inv[i].outcomes) \in {0, 1}
        /\ Len(inv[i].calls) >= 2 =>
              /\ ReturnedId(i, 1)
              /\ IsRegister(inv[i].calls[1], ExpectedSite(i))
              /\ IsApply(inv[i].calls[2])
        /\ (Len(inv[i].outcomes) >= 1 /\ ~ReturnedId(i, 1)) =>
              Finished(i) /\ Len(inv[i].calls) = 1

C5_Witness ==
    \E i \in Added :
        /\ inv[i].pc = "fetch2"
        /\ Len(inv[i].calls) = 2
        /\ Len(inv[i].outcomes) = 1

(***************************************************************************)
(* C6: when the registration response carries an empty or absent id, the   *)
(* operation fails with the no-script-ID error and hands no further        *)
(* request to fetch: one network call in total.                            *)
(***************************************************************************)
C6_NoScriptId ==
    \A i \in Added :
        ReturnedNoId(i, 1) =>
            /\ Finished(i)
            /\ FailedResult(i)
            /\ inv[i].result.error =
                  <<"Failed to register script: no script ID returned">>
            /\ Len(inv[i].calls) = 1

C6_Witness ==
    \E i \in Added :
        /\ Finished(i)
        /\ ReturnedNoId(i, 1)
        /\ "id" \notin DOMAIN inv[i].outcomes[1].json.o

(***************************************************************************)
(* C7: when step 2 fails after step 1 succeeded, the operation is reported *)
(* as a failure (success false, error set); step 2 is not retried and no   *)
(* call undoing step 1 is made: exactly two requests, the registration and *)
(* the application, were handed to fetch.                                  *)
(***************************************************************************)
C7_ApplyFailure ==
    \A i \in Added :
        (Len(inv[i].outcomes) >= 2 /\ inv[i].outcomes[2].k # "ok") =>
            /\ Finished(i)
            /\ FailedResult(i)
            /\ Len(inv[i].result.error) > 0
            /\ Len(inv[i].calls) = 2
            /\ Len(inv[i].outcomes) = 2
            /\ IsRegister(inv[i].calls[1], ExpectedSite(i))
            /\ IsApply(inv[i].calls[2])

C7_Witness ==
    \E i \in Added :
        /\ Finished(i)
        /\ ReturnedId(i, 1)
        /\ Len(inv[i].outcomes) = 2
        /\ inv[i].outcomes[2].k = "http"

(***************************************************************************)
(* C8: the result carries the script identifier returned by step 1        *)
(* whenever step 1 returned one, also when step 2 fails and the success    *)
(* flag is false.                                                          *)
(***************************************************************************)
C8_ScriptIdKept ==
    \A i \in Added :
        (Finished(i) /\ ReturnedId(i, 1)) =>
            inv[i].result.scriptId = RegisteredId(i)

(***************************************************************************)
(* Vocabulary of the properties of all tools.                              *)
(***************************************************************************)
\* the invocations that have been started
Started == {i \in DOMAIN inv : inv[i].pc # "idle"}

ListTools ==
    {"listSites", "listPages", "listForms", "listFormSubmissions",
     "listCustomCode"}

ListKey(tool) ==
    CASE tool = "listSites" -> "sites"
      [] tool = "listPages" -> "pages"
      [] tool = "listForms" -> "forms"
      [] tool = "listFormSubmissions" -> "formSubmissions"
      [] tool = "listCustomCode" -> "blocks"

\* the result of i has the failure shape of its tool and carries an error
FailureShape(i) ==
    LET r == inv[i].result
    IN /\ "error" \in DOMAIN r
       /\ Len(r.error) > 0
       /\ IF inv[i].tool \in ListTools
          THEN /\ DOMAIN r = {ListKey(inv[i].tool), "count", "error"}
               /\ r[ListKey(inv[i].tool)] = <<>>
               /\ r.count = 0
          ELSE /\ "success" \in DOMAIN r
               /\ r.success = FALSE

\* the requests of i that are scoped to a site all name this site
SiteScoped(i, site) ==
    \A n \in 1..Len(inv[i].calls) :
        inv[i].calls[n].url[2] = "/sites/" => inv[i].calls[n].url[3] = site

KeyConfigured == env.WEBFLOW_API_KEY \notin {Undefined, Str("")}

\* i is an addCustomCode call that violates one of its two preconditions
PreconditionViolated(i) ==
    inv[i].tool = "addCustomCode" /\ (PageWithoutId(i) \/ Oversized(i))

\* i resolved its site: its first request goes to that site
UsesSite(i, site) ==
    /\ SiteScoped(i, site)
    /\ (KeyConfigured /\ ~PreconditionViolated(i)) =>
          /\ Len(inv[i].calls) >= 1
          /\ inv[i].calls[1].url[2] = "/sites/"
          /\ inv[i].calls[1].url[3] = site

(***************************************************************************)
(* C9 as stated: for every tool that takes a site, an explicit siteId is   *)
(* used when supplied, otherwise the process-wide default; when neither is *)
(* available the invocation fails with the site-ID-required error and no   *)
(* request is handed to fetch.                                             *)
(***************************************************************************)
C9_Original ==
    \A i \in Started :
        inv[i].tool \in SiteTools =>
            IF ~NotSupplied(inv[i].args.siteId)
            THEN UsesSite(i, inv[i].args.siteId.s)
            ELSE IF ~NotSupplied(env.WEBFLOW_SITE_ID)
            THEN UsesSite(i, env.WEBFLOW_SITE_ID.s)
            ELSE /\ Finished(i)
                 /\ FailureShape(i)
                 /\ inv[i].result.error = SiteIdRequired
                 /\ inv[i].calls = <<>>

(***************************************************************************)
(* C9 amended: as stated, except that an addCustomCode call that also      *)
(* violates one of its preconditions (target "page" without pageId, or an  *)
(* oversized sourceCode) reports that precondition's error instead of the  *)
(* site-ID-required error; it still fails with no request handed to fetch. *)
(***************************************************************************)
C9_SiteResolution ==
    \A i \in Started :
        inv[i].tool \in SiteTools =>
            IF ~NotSupplied(inv[i].args.siteId)
            THEN UsesSite(i, inv[i].args.siteId.s)
            ELSE IF ~NotSupplied(env.WEBFLOW_SITE_ID)
            THEN UsesSite(i, env.WEBFLOW_SITE_ID.s)
            ELSE /\ Finished(i)
                 /\ FailureShape(i)
                 /\ inv[i].calls = <<>>
                 /\ ~PreconditionViolated(i) =>
                        inv[i].result.error = SiteIdRequired

C9_Witness ==
    \E i \in Started :
        /\ inv[i].tool = "addCustomCode"
        /\ NotSupplied(inv[i].args.siteId)
        /\ NotSupplied(env.WEBFLOW_SITE_ID)
        /\ ~PreconditionViolated(i)
        /\ Finished(i)
        /\ inv[i].result.error = SiteIdRequired

(***************************************************************************)
(* C10: no executor raises to its caller.  Every finished invocation has   *)
(* returned a result object; after a failure of the configuration, of the  *)
(* site resolution, of the transport, of the upstream status or of the     *)
(* parsing of the response, the invocation is finished and its result has  *)
(* the failure shape of its tool, with an error string.                    *)
(***************************************************************************)
C10_NeverRaises ==
    \A i \in Started :
        /\ Finished(i) => "raised" \notin DOMAIN inv[i].result
        /\ (\/ ~KeyConfigured
            \/ /\ inv[i].tool \in SiteTools
               /\ NotSupplied(inv[i].args.siteId)
               /\ NotSupplied(env.WEBFLOW_SITE_ID)
            \/ \E n \in 1..Len(inv[i].outcomes) : inv[i].outcomes[n].k # "ok")
           => Finished(i) /\ FailureShape(i)

C10_Witness ==
    \E i \in Started :
        /\ inv[i].tool = "updatePage"
        /\ Finished(i)
        /\ Len(inv[i].outcomes) = 1
        /\ inv[i].outcomes[1] = FetchReject(NonError)
        /\ inv[i].result.error = <<"Failed to update page">>

(***************************************************************************)
(* Vocabulary of the results.                                              *)
(***************************************************************************)
\* the message is a non-empty string
NonEmpty(message) == \E k \in 1..Len(message) : message[k] # ""

\* the items the first response of i carries under the key of its tool
UpstreamList(i) ==
    Nullish(Get(inv[i].outcomes[1].json, ListKey(inv[i].tool)), Arr(<<>>)).a

\* the field that identifies an item of a list
ItemKey(tool) == IF tool = "listCustomCode" THEN "siteId" ELSE "id"

\* the list of the result of i is the upstream list, item by item, with the
\* identifying field of each item as a string
NormalizedList(i) ==
    LET list == inv[i].result[ListKey(inv[i].tool)]
        key == ItemKey(inv[i].tool)
    IN /\ Len(inv[i].outcomes) = 1
       /\ inv[i].outcomes[1].k = "ok"
       /\ inv[i].outcomes[1].json.t = "object"
       /\ Len(list) = Len(UpstreamList(i))
       /\ \A k \in 1..Len(list) :
             list[k][key] =
                 Str(ToStr(Nullish(Get(UpstreamList(i)[k], key), Str(""))))

\* the result of i reports a success: no error, and the success flag true
\* or, for a list tool, the normalized upstream list
SuccessOutcome(i) ==
    LET r == inv[i].result
    IN /\ "error" \notin DOMAIN r
       /\ IF inv[i].tool \in ListTools
          THEN NormalizedList(i)
          ELSE "success" \in DOMAIN r /\ r.success = TRUE

\* the result of i reports a failure: a non-empty error, and the success
\* flag false or, for a list tool, the empty list with count 0
FailureOutcome(i) ==
    LET r == inv[i].result
    IN /\ "error" \in DOMAIN r
       /\ NonEmpty(r.error)
       /\ IF inv[i].tool \in ListTools
          THEN r[ListKey(inv[i].tool)] = <<>> /\ r.count = 0
          ELSE "success" \in DOMAIN r /\ r.success = FALSE

(***************************************************************************)
(* C11: the result of every finished invocation of every tool is exactly   *)
(* one of a success (success flag true or, for a list tool, the normalized *)
(* upstream list, and no error) and a failure (success flag false or, for  *)
(* a list tool, the empty list with count 0, and a non-empty error         *)
(* string): never both, never neither.                                     *)
(***************************************************************************)
C11_SuccessXorError ==
    \A i \in Started :
        Finished(i) => (SuccessOutcome(i) # FailureOutcome(i))

C11_Witness ==
    \E i \in Started :
        /\ Finished(i)
        /\ inv[i].tool = "listCustomCode"
        /\ SuccessOutcome(i)
        /\ ~FailureOutcome(i)
        /\ inv[i].result.count = 2

(***************************************************************************)
(* C12: in the result of every finished invocation of a list tool, count   *)
(* equals the length of the returned list, whatever the upstream response: *)
(* a populated list, an empty list, a missing list key, or a failure.      *)
(***************************************************************************)
C12_CountIsLength ==
    \A i \in Started :
        (Finished(i) /\ inv[i].tool \in ListTools) =>
            /\ {ListKey(inv[i].tool), "count"} \subseteq DOMAIN inv[i].result
            /\ inv[i].result.count = Len(inv[i].result[ListKey(inv[i].tool)])
            /\ SuccessOutcome(i) => inv[i].result.count = Len(UpstreamList(i))

C12_Witness ==
    \E i \in Started :
        /\ Finished(i)
        /\ inv[i].tool = "listPages"
        /\ SuccessOutcome(i)
        /\ inv[i].result.count = 1
        /\ Len(inv[i].result.pages) = 1
        /\ inv[i].result.pagination = Obj([limit |-> Num(0), offset |-> Num(0),
                                           total |-> Num(2)])

(***************************************************************************)
(* C14: the body of the PUT request of updatePage holds exactly the keys   *)
(* among title, slug, seo and openGraph that the caller supplied, each     *)
(* with the supplied value: an omitted field is not in the body, not even  *)
(* as null, and pageId is never in the body.                               *)
(***************************************************************************)
C14_UpdateBody ==
    \A i \in Started :
        inv[i].tool = "updatePage" =>
            /\ KeyConfigured => Len(inv[i].calls) = 1
            /\ \A n \in 1..Len(inv[i].calls) :
                  LET sent == inv[i].calls[n].body
                      supplied == {k \in {"title", "slug", "seo", "openGraph"} :
                                      inv[i].args[k] # Undefined}
                  IN /\ inv[i].calls[n].method = "PUT"
                     /\ sent.t = "object"
                     /\ DOMAIN sent.o = supplied
                     /\ \A k \in supplied :
                           sent.o[k] = inv[i].args[k] /\ sent.o[k] # Null
                     /\ "pageId" \notin DOMAIN sent.o

C14_Witness ==
    \E i \in Started :
        /\ inv[i].tool = "updatePage"
        /\ Len(inv[i].calls) = 1
        /\ inv[i].args.title = Str("")
        /\ inv[i].args.slug = Str("about-us")
        /\ inv[i].args.seo = Undefined
        /\ DOMAIN inv[i].calls[1].body.o = {"title", "slug", "openGraph"}

(***************************************************************************)
(* C15: the body of the request of publishSite has no customDomains key    *)
(* when the caller gave no customDomains, holds the caller's list when     *)
(* that list is non-empty, and always holds publishToWebflowSubdomain: the *)
(* caller's value, or false when the caller omitted it.                    *)
(***************************************************************************)
C15_PublishBody ==
    \A i \in Started :
        inv[i].tool = "publishSite" =>
            \A n \in 1..Len(inv[i].calls) :
                LET sent == inv[i].calls[n].body
                    args == inv[i].args
                IN /\ sent.t = "object"
                   /\ args.customDomains = Undefined =>
                         "customDomains" \notin DOMAIN sent.o
                   /\ (args.customDomains # Undefined
                       /\ Len(args.customDomains.a) > 0) =>
                         /\ "customDomains" \in DOMAIN sent.o
                         /\ sent.o.customDomains = args.customDomains
                   /\ "publishToWebflowSubdomain" \in DOMAIN sent.o
                   /\ sent.o.publishToWebflowSubdomain =
                         IF args.publishToWebflowSubdomain = Undefined
                         THEN Bool(FALSE)
                         ELSE args.publishToWebflowSubdomain

C15_Witness ==
    \E i \in Started :
        /\ inv[i].tool = "publishSite"
        /\ Len(inv[i].calls) = 1
        /\ inv[i].args.customDomains = Arr(<<Str("domain-1")>>)
        /\ inv[i].args.publishToWebflowSubdomain = Undefined
        /\ inv[i].calls[1].body =
              Obj([publishToWebflowSubdomain |-> Bool(FALSE),
                   customDomains |-> Arr(<<Str("domain-1")>>)])

(***************************************************************************)
(* C18: for every tool, a non-success response with status S and body text *)
(* B ends the invocation with a failure result whose error holds S and B   *)
(* verbatim (the body is not parsed); a list tool returns the empty list   *)
(* with count 0.                                                           *)
(***************************************************************************)
C18_UpstreamError ==
    \A i \in Started :
        \A n \in 1..Len(inv[i].outcomes) :
            inv[i].outcomes[n].k = "http" =>
                /\ Finished(i)
                /\ n = Len(inv[i].outcomes)
                /\ FailureOutcome(i)
                /\ \E j, k \in 1..Len(inv[i].result.error) :
                      /\ j < k
                      /\ inv[i].result.error[j] =
                            ToString(inv[i].outcomes[n].status)
                      /\ inv[i].result.error[k] = inv[i].outcomes[n].text

C18_Witness ==
    \E i \in Started :
        /\ inv[i].tool = "listForms"
        /\ Finished(i)
        /\ inv[i].outcomes = <<FetchHttp(500, "Internal Server Error")>>
        /\ inv[i].result =
              [forms |-> <<>>, count |-> 0,
               error |-> <<"Webflow API error ", "500", ": ",
                           "Internal Server Error">>]

(***************************************************************************)
(* C19: when WEBFLOW_API_KEY is unset, callApi fails before it hands any   *)
(* request to fetch: every invocation of every tool is finished with the   *)
(* failure shape of its tool and no request; the error is the one of the   *)
(* missing key unless the site resolution or a precondition failed first.  *)
(***************************************************************************)
C19_NoKeyNoCall ==
    \A i \in Started :
        ~KeyConfigured =>
            /\ Finished(i)
            /\ FailureOutcome(i)
            /\ inv[i].calls = <<>>
            /\ inv[i].outcomes = <<>>
            /\ (/\ ~PreconditionViolated(i)
                /\ inv[i].tool \in SiteTools => ExpectedSite(i) # "") =>
                  inv[i].result.error =
                      <<"WEBFLOW_API_KEY environment variable is required">>

C19_Witness ==
    \E i \in Started :
        /\ env.WEBFLOW_API_KEY = Undefined
        /\ inv[i].tool = "listSites"
        /\ Finished(i)
        /\ inv[i].calls = <<>>
        /\ inv[i].result =
              [sites |-> <<>>, count |-> 0,
               error |-> <<"WEBFLOW_API_KEY environment variable is required">>]

(***************************************************************************)
(* Vocabulary of the tool calls.                                           *)
(***************************************************************************)
\* the tools that change the site: they issue a POST or a PUT
MutatingTools == {"publishSite", "updatePage", "addCustomCode"}

\* the tools whose input has a limit
LimitTools == {"listPages", "listForms", "listFormSubmissions", "listCustomCode"}

\* execute of the tool call i was entered
ExecutorRan(i) == inv[i].pc \in {"fetch1", "fetch2", "done"}

\* the tool call i was rejected: execute was not entered, nothing was sent
Rejected(i) ==
    /\ inv[i].pc = "rejected"
    /\ inv[i].calls = <<>>
    /\ inv[i].result = NoResult

(***************************************************************************)
(* C13: needsApproval is set on exactly the three mutating tools           *)
(* (publishSite, updatePage, addCustomCode) and on none of the five list   *)
(* tools; when tool calls wait for the approval the flag asks for, no      *)
(* mutating executor runs, and no POST or PUT request is handed to fetch,  *)
(* without a prior approval, and the list tools issue GET requests only.   *)
(***************************************************************************)
C13_ApprovalBeforeMutation ==
    /\ \A tool \in Tools : needsApproval(tool) <=> tool \in MutatingTools
    /\ \A tool \in ListTools : ~needsApproval(tool)
    /\ \A i \in DOMAIN inv :
          /\ (inv[i].tool \in MutatingTools /\ ExecutorRan(i)) => inv[i].approved
          /\ \A n \in 1..Len(inv[i].calls) :
                /\ inv[i].calls[n].method \in {"POST", "PUT"} => inv[i].approved
                /\ inv[i].tool \in ListTools => inv[i].calls[n].method = "GET"

C13_Witness ==
    \E i \in DOMAIN inv :
        /\ inv[i].tool = "updatePage"
        /\ inv[i].approved
        /\ inv[i].pc = "fetch1"
        /\ inv[i].calls[1].method = "PUT"

(***************************************************************************)
(* C16: the input shape of publishSite requires a publish destination      *)
(* (publishToWebflowSubdomain true, or a non-empty customDomains list): a  *)
(* tool call with neither does not conform, is rejected, and hands no      *)
(* publish request to fetch.                                               *)
(***************************************************************************)
C16_DestinationRequired ==
    \A i \in DOMAIN inv :
        (/\ inv[i].tool = "publishSite"
         /\ inv[i].args.publishToWebflowSubdomain # Bool(TRUE)
         /\ \/ inv[i].args.customDomains = Undefined
            \/ Len(inv[i].args.customDomains.a) = 0) =>
            /\ ~Conforms("publishSite", inv[i].args)
            /\ Rejected(i)

(***************************************************************************)
(* C17: for listPages, listForms, listFormSubmissions and listCustomCode,  *)
(* a tool call whose limit is outside [1,100] does not conform to the      *)
(* declared input shape and is rejected before execute runs: execute is    *)
(* never entered, and no request carries a limit below 1 or above 100.     *)
(***************************************************************************)
C17_LimitRejected ==
    \A i \in DOMAIN inv :
        inv[i].tool \in LimitTools =>
            /\ (/\ inv[i].args.limit # Undefined
                /\ inv[i].args.limit.n \notin 1..100) =>
                  /\ ~ExecutorRan(i)
                  /\ Rejected(i)
            /\ \A n \in 1..Len(inv[i].calls) :
                  "limit" \in DOMAIN inv[i].calls[n].search =>
                      inv[i].calls[n].search.limit \in
                          {ToString(k) : k \in 1..100}

C17_Witness ==
    \E i \in DOMAIN inv :
        /\ inv[i].tool = "listFormSubmissions"
        /\ inv[i].args.limit = Num(101)
        /\ ~NotSupplied(inv[i].args.siteId)
        /\ KeyConfigured
        /\ Rejected(i)

(***************************************************************************)
(* Vocabulary of the configuration.                                        *)
(***************************************************************************)
KeyRequired == <<"WEBFLOW_API_KEY environment variable is required">>

\* the invocations that handed a request to fetch
Calling == {i \in DOMAIN inv : Len(inv[i].calls) > 0}

\* the credential the first request of i carries
CredentialUsed(i) == inv[i].calls[1].headers.Authorization[2]

\* i takes the default site: it has no siteId and its first request is
\* scoped to a site
TakesDefaultSite(i) ==
    /\ inv[i].tool \in SiteTools
    /\ NotSupplied(inv[i].args.siteId)
    /\ inv[i].calls[1].url[2] = "/sites/"

(***************************************************************************)
(* C20 as stated: the credential and the default site are read once, when  *)
(* the tools are constructed, and are read-only afterwards: a change of    *)
(* the process configuration between two invocations does not change the   *)
(* credential or the default site the later invocation uses; and a missing *)
(* credential is a failure of an invocation, never of the load.            *)
(***************************************************************************)
C20_ReadOnce ==
    /\ \A i, j \in Calling :
          /\ CredentialUsed(i) = CredentialUsed(j)
          /\ (TakesDefaultSite(i) /\ TakesDefaultSite(j)) =>
                inv[i].calls[1].url[3] = inv[j].calls[1].url[3]
    /\ \A i \in DOMAIN inv :
          ("error" \in DOMAIN inv[i].result /\ inv[i].result.error = KeyRequired)
              => Finished(i) /\ FailureOutcome(i)

(***************************************************************************)
(* C20 amended: the credential and the default site are read from the      *)
(* process configuration at each use: every request carries the credential *)
(* configured when it is handed to fetch, a call without siteId goes to    *)
(* the default site configured when it starts, and the missing-credential  *)
(* failure is returned exactly by the run of an invocation that reaches    *)
(* callApi while the credential is missing.  Only siteIdDescription is     *)
(* fixed when the module is loaded.                                        *)
(***************************************************************************)
C20_ReadAtUse ==
    [][/\ siteIdDescription' = siteIdDescription
       /\ \A i \in DOMAIN inv :
             /\ Len(inv'[i].calls) > Len(inv[i].calls) =>
                   LET r == inv'[i].calls[Len(inv'[i].calls)]
                   IN /\ Truthy(env.WEBFLOW_API_KEY)
                      /\ r.headers.Authorization =
                            <<"Bearer ", env.WEBFLOW_API_KEY.s>>
                      /\ (/\ inv[i].pc = "idle"
                          /\ TakesDefaultSite(i)') =>
                            /\ Truthy(env.WEBFLOW_SITE_ID)
                            /\ r.url[3] = env.WEBFLOW_SITE_ID.s
             /\ (/\ inv[i].result = NoResult
                 /\ "error" \in DOMAIN inv'[i].result
                 /\ inv'[i].result.error = KeyRequired) =>
                   ~Truthy(env.WEBFLOW_API_KEY)
             /\ (/\ ~Truthy(env.WEBFLOW_API_KEY)
                 /\ \/ inv[i].pc = "idle" /\ inv'[i].pc # "idle"
                    \/ /\ inv[i].pc = "fetch1" /\ inv'[i].pc # "fetch1"
                       /\ inv[i].tool = "addCustomCode"
                       /\ ReturnedId(i, 1)') =>
                   /\ Len(inv'[i].calls) = Len(inv[i].calls)
                   /\ Finished(i)'
                   /\ FailureOutcome(i)']_vars

C20_Witness ==
    \E i, j \in Calling :
        /\ loadEnv.WEBFLOW_API_KEY = Undefined
        /\ loadEnv.WEBFLOW_SITE_ID = Undefined
        /\ CredentialUsed(i) = "test-api-key"
        /\ CredentialUsed(j) = "rotated-api-key"
        /\ TakesDefaultSite(i) /\ TakesDefaultSite(j)
        /\ inv[i].calls[1].url[3] = "test-site-id"
        /\ inv[j].calls[1].url[3] = "other-site-id"

(***************************************************************************)
(* Vocabulary of the helper calls.                                         *)
(***************************************************************************)
\* the calls of the helper that have returned
CallsOf(helper) == {i \in DOMAIN inv : inv[i].tool = helper}

\* the key is a key of the JavaScript object, with a value other than null
Present(obj, key) == key \in DOMAIN obj.o /\ obj.o[key] # Null

\* the values JavaScript takes for false
Falsy(v) == v \in {Undefined, Null, Str(""), Num(0), Bool(FALSE)}

\* the key is a key of the object and its value is not falsy
Filled(obj, key) == Present(obj, key) /\ ~Falsy(obj.o[key])

(***************************************************************************)
(* C21 as stated: getStringField returns the stringified value of the      *)
(* snake-case key when that key is present, otherwise the stringified      *)
(* value of the camel-case key when that key is present (the snake-case    *)
(* value wins when both are present), and nothing when neither is present. *)
(* A key holding null is taken as not present.                             *)
(***************************************************************************)
C21_PresentKeyWins ==
    \A i \in CallsOf("getStringField") :
        LET obj == inv[i].args.input
        IN inv[i].result.value =
              IF Present(obj, "last_published")
              THEN Str(ToStr(obj.o.last_published))
              ELSE IF Present(obj, "lastPublished")
              THEN Str(ToStr(obj.o.lastPublished))
              ELSE Undefined

(***************************************************************************)
(* C21 amended: getStringField returns the stringified value of the        *)
(* snake-case key when that value is not falsy (null, "", 0, false, or     *)
(* absent), otherwise the stringified value of the camel-case key when     *)
(* that value is not falsy, and nothing otherwise: a snake-case value that *)
(* is not falsy wins over any camel-case value.                            *)
(***************************************************************************)
C21_DualKey ==
    \A i \in CallsOf("getStringField") :
        LET obj == inv[i].args.input
        IN inv[i].result.value =
              IF Filled(obj, "last_published")
              THEN Str(ToStr(obj.o.last_published))
              ELSE IF Filled(obj, "lastPublished")
              THEN Str(ToStr(obj.o.lastPublished))
              ELSE Undefined

C21_Witness ==
    \E i \in CallsOf("getStringField") :
        /\ inv[i].args.input =
              Obj([last_published |-> Str("X"), lastPublished |-> Str("Y")])
        /\ inv[i].result.value = Str("X")

(***************************************************************************)
(* C22 as stated: parseTitleDescription yields nothing for an absent       *)
(* source, and for a present source an object whose title and description  *)
(* are each the stringified member of the source when that member is       *)
(* present and absent otherwise; an empty source object yields an object   *)
(* with both members absent, never nothing.  A member holding null is      *)
(* taken as not present.                                                   *)
(***************************************************************************)
C22_PresentMembers ==
    \A i \in CallsOf("parseTitleDescription") :
        LET raw == inv[i].args.input
        IN inv[i].result.value =
              IF raw \in {Undefined, Null} THEN Undefined
              ELSE Obj([title |-> IF Present(raw, "title")
                                  THEN Str(ToStr(raw.o.title)) ELSE Undefined,
                        description |-> IF Present(raw, "description")
                                        THEN Str(ToStr(raw.o.description))
                                        ELSE Undefined])

(***************************************************************************)
(* C22 amended: parseTitleDescription yields nothing for an absent source, *)
(* and for a present source an object whose title and description are each *)
(* the stringified member of the source when that member is not falsy      *)
(* (null, "", 0, false, or absent) and absent otherwise; an empty source   *)
(* object yields an object with both members absent, never nothing.        *)
(***************************************************************************)
C22_TitleDescription ==
    \A i \in CallsOf("parseTitleDescription") :
        LET raw == inv[i].args.input
            value == inv[i].result.value
        IN IF raw \in {Undefined, Null} THEN value = Undefined
           ELSE /\ value # Undefined
                /\ value.t = "object"
                /\ DOMAIN value.o = {"title", "description"}
                /\ \A k \in {"title", "description"} :
                      value.o[k] = IF Filled(raw, k)
                                   THEN Str(ToStr(raw.o[k])) ELSE Undefined

C22_Witness ==
    \E i \in CallsOf("parseTitleDescription") :
        /\ inv[i].args.input = Obj(EmptyRec)
        /\ inv[i].result.value =
              Obj([title |-> Undefined, description |-> Undefined])

(***************************************************************************)
(* C23: parseFormFields, for a source mapping with at least one key,       *)
(* yields a mapping with exactly the same keys, each mapping to an object  *)
(* with an optional displayName and an optional type (strings when there); *)
(* for an absent source or a source without keys it yields nothing, never  *)
(* an empty mapping.                                                       *)
(***************************************************************************)
C23_FormFields ==
    \A i \in CallsOf("parseFormFields") :
        LET rawFields == inv[i].args.input
            value == inv[i].result.value
        IN IF rawFields \in {Undefined, Null} \/ DOMAIN rawFields.o = {}
           THEN value = Undefined
           ELSE /\ value.t = "object"
                /\ DOMAIN value.o = DOMAIN rawFields.o
                /\ DOMAIN value.o # {}
                /\ \A key \in DOMAIN value.o :
                      /\ value.o[key].t = "object"
                      /\ DOMAIN value.o[key].o = {"displayName", "type"}
                      /\ \A m \in {"displayName", "type"} :
                            /\ value.o[key].o[m].t \in {"undefined", "string"}
                            /\ Filled(rawFields.o[key], m) =>
                                  value.o[key].o[m] =
                                      Str(ToStr(rawFields.o[key].o[m]))

C23_Witness ==
    \E i \in CallsOf("parseFormFields") :
        /\ inv[i].args.input.t = "object"
        /\ DOMAIN inv[i].args.input.o = {"name", "email"}
        /\ inv[i].args.input.o.name = Obj([displayName |-> Str("Name")])
        /\ inv[i].result.value.o.name =
              Obj([displayName |-> Str("Name"), type |-> Undefined])
        /\ DOMAIN inv[i].result.value.o = {"name", "email"}

(***************************************************************************)
(* C24: for listPages, listForms, listFormSubmissions and listCustomCode,  *)
(* the result carries a pagination envelope if and only if the upstream    *)
(* response supplied a pagination object; when there, its limit, offset    *)
(* and total are numbers, each 0 when the upstream field is missing; a     *)
(* failure result never carries pagination.                                *)
(***************************************************************************)
C24_Pagination ==
    \A i \in Started :
        (Finished(i) /\ inv[i].tool \in LimitTools) =>
            LET r == inv[i].result
                supplied == Get(inv[i].outcomes[1].json, "pagination")
                envelope == IF "pagination" \in DOMAIN r THEN r.pagination
                            ELSE Undefined
            IN /\ FailureOutcome(i) => "pagination" \notin DOMAIN r
               /\ SuccessOutcome(i) =>
                     /\ envelope # Undefined <=> supplied.t = "object"
                     /\ supplied.t = "object" =>
                           /\ DOMAIN envelope.o = {"limit", "offset", "total"}
                           /\ \A k \in {"limit", "offset", "total"} :
                                 /\ envelope.o[k].t = "number"
                                 /\ envelope.o[k] =
                                       IF k \in DOMAIN supplied.o
                                       THEN supplied.o[k] ELSE Num(0)

C24_Witness ==
    \E i \in Started :
        /\ Finished(i)
        /\ inv[i].tool = "listFormSubmissions"
        /\ SuccessOutcome(i)
        /\ Get(inv[i].outcomes[1].json, "pagination") = Obj([total |-> Num(2)])
        /\ inv[i].result.pagination =
              Obj([limit |-> Num(0), offset |-> Num(0), total |-> Num(2)])

(***************************************************************************)
(* C25: for every site returned by listSites, designerUrl is               *)
(* "https://<shortName>.design.webflow.com" and settingsUrl is             *)
(* "https://webflow.com/dashboard/sites/<shortName>/general", where        *)
(* <shortName> is the shortName of the same returned site, for every       *)
(* upstream site record, one without a short name included.                *)
(***************************************************************************)
C25_UrlsFromShortName ==
    \A i \in Started :
        (Finished(i) /\ inv[i].tool = "listSites") =>
            \A k \in 1..Len(inv[i].result.sites) :
                LET site == inv[i].result.sites[k]
                IN /\ site.designerUrl =
                         <<"https://", site.shortName.s, ".design.webflow.com">>
                   /\ site.settingsUrl =
                         <<"https://webflow.com/dashboard/sites/",
                           site.shortName.s, "/general">>

(***************************************************************************)
(* C26: invocations are neither deduplicated nor do they share state: two  *)
(* invocations of publishSite with the same arguments hand two publish     *)
(* requests to fetch, one each, and the result of an invocation is fixed   *)
(* by its own arguments, the configuration and its own responses.          *)
(***************************************************************************)
C26_NoDeduplication ==
    \A i \in Started :
        inv[i].tool = "publishSite" =>
            /\ (KeyConfigured /\ ExpectedSite(i) # "") =>
                  /\ Len(inv[i].calls) = 1
                  /\ inv[i].calls[1].method = "POST"
                  /\ inv[i].calls[1].url =
                        <<BASE_URL, "/sites/", ExpectedSite(i), "/publish">>
            /\ \A j \in Started :
                  (/\ inv[j].tool = "publishSite"
                   /\ inv[j].args = inv[i].args
                   /\ inv[j].outcomes = inv[i].outcomes) =>
                      inv[j].result = inv[i].result /\ inv[j].calls = inv[i].calls
            /\ Finished(i) =>
                  IF inv[i].outcomes = <<>> THEN FailureOutcome(i)
                  ELSE IF inv[i].outcomes[1].k = "http"
                  THEN /\ FailureOutcome(i)
                       /\ inv[i].result.error[4] = inv[i].outcomes[1].text
                  ELSE /\ SuccessOutcome(i)
                       /\ inv[i].result.publishedDomains =
                             DomainsOf(Get(inv[i].outcomes[1].json,
                                           "customDomains"))

C26_Witness ==
    \E i, j \in Started :
        /\ i # j
        /\ inv[i].tool = "publishSite" /\ inv[j].tool = "publishSite"
        /\ inv[i].args = inv[j].args
        /\ Len(inv[i].calls) = 1 /\ inv[j].calls = inv[i].calls
        /\ Finished(i) /\ Finished(j)
        /\ SuccessOutcome(i) /\ FailureOutcome(j)

(***************************************************************************)
(* C27: the second request of an addCustomCode invocation is a PUT whose   *)
(* body holds exactly one script {id, location, version}: id is the        *)
(* identifier the first response returned, location and version are the    *)
(* arguments.  It goes to /pages/<pageId>/custom_code exactly when target  *)
(* is "page", else to /sites/<resolved site>/custom_code, and a successful *)
(* result's appliedTo names that same page or site.                        *)
(***************************************************************************)
C27_ApplyRequest ==
    \A i \in Added :
        Len(inv[i].calls) >= 2 =>
            LET r == inv[i].calls[2]
                a == inv[i].args
            IN /\ ReturnedId(i, 1)
               /\ r.method = "PUT"
               /\ r.body = Obj([scripts |->
                               Arr(<<Obj([id |-> Str(RegisteredId(i)),
                                          location |-> Str(a.location),
                                          version |-> Str(a.version)])>>)])
               /\ r.url = IF a.target = "page"
                           THEN <<BASE_URL, "/pages/", a.pageId.s, "/custom_code">>
                           ELSE <<BASE_URL, "/sites/", ExpectedSite(i),
                                  "/custom_code">>
               /\ (Finished(i) /\ SuccessOutcome(i)) =>
                      /\ inv[i].result.scriptId = RegisteredId(i)
                      /\ inv[i].result.appliedTo =
                            IF a.target = "page"
                            THEN <<"page:", a.pageId.s>>
                            ELSE <<"site:", ExpectedSite(i)>>

\* a successful invocation with target "site" although a pageId was supplied:
\* its second request went to the site endpoint with the numeric id coerced
C27_Witness ==
    \E i \in Added :
        /\ Finished(i) /\ SuccessOutcome(i)
        /\ Len(inv[i].calls) = 2
        /\ inv[i].args.target = "site"
        /\ inv[i].args.pageId = Str("page-1")
        /\ inv[i].args.location = "footer"
        /\ inv[i].outcomes[1].json.o.id = Num(7)
        /\ inv[i].calls[2].url[2] = "/sites/"

(***************************************************************************)
(* C28: no request is ever sent again.  An invocation of listSites,        *)
(* publishSite, listPages, updatePage, listForms, listFormSubmissions or   *)
(* listCustomCode hands at most one request to fetch and an invocation of  *)
(* addCustomCode at most two, however the fetches settle; at most one      *)
(* fetch is outstanding, a finished invocation has its result and no fetch *)
(* outstanding, and its requests and result never change afterwards.       *)
(***************************************************************************)
SingleRequestTools == Tools \ {"addCustomCode"}

\* the requests of i handed to fetch that have not settled yet
Outstanding(i) == Len(inv[i].calls) - Len(inv[i].outcomes)

C28_NoRetries ==
    /\ [](\A i \in Started :
             /\ inv[i].tool \in SingleRequestTools => Len(inv[i].calls) <= 1
             /\ inv[i].tool = "addCustomCode" => Len(inv[i].calls) <= 2
             /\ IF Finished(i)
                THEN Outstanding(i) = 0 /\ inv[i].result # NoResult
                ELSE Outstanding(i) = 1 /\ inv[i].result = NoResult)
    /\ [][\A i \in DOMAIN inv :
             /\ Finished(i) => inv'[i] = inv[i]
             /\ i \in Started =>
                    /\ Len(inv'[i].calls) <= Len(inv[i].calls) + 1
                    /\ SubSeq(inv'[i].calls, 1, Len(inv[i].calls)) = inv[i].calls]_vars

\* a list invocation whose only request failed upstream: it finished with a
\* failure after that one request
C28_Witness ==
    \E i \in Started :
        /\ inv[i].tool = "listFormSubmissions"
        /\ Finished(i) /\ FailureOutcome(i)
        /\ Len(inv[i].calls) = 1
        /\ inv[i].outcomes[1].k # "ok"

(***************************************************************************)
(* C29: with two addCustomCode invocations under way and their fetches     *)
(* settling in any order, every request and the result of an invocation    *)
(* are made of its own values only: step 1 carries its own site, source,   *)
(* version and name; step 2 carries the id its own step 1 returned, its    *)
(* own location and version, and goes to its own page or site; the result  *)
(* names that id and that target.  A step of one invocation changes        *)
(* nothing of the other.                                                   *)
(***************************************************************************)
\* the requests and the result of i are made of the values of i
OwnValues(i) ==
    LET a == inv[i].args
        c == inv[i].calls
        own == IF a.target = "page" THEN <<"page", a.pageId.s>>
               ELSE <<"site", a.siteId.s>>
    IN /\ Len(c) >= 1 =>
              /\ IsRegister(c[1], a.siteId.s)
              /\ c[1].body = Obj([sourceCode |-> a.sourceCode,
                                  version |-> Str(a.version),
                                  displayName |-> Str(a.displayName)])
       /\ Len(c) >= 2 =>
              /\ ReturnedId(i, 1)
              /\ c[2].body = Obj([scripts |->
                                 Arr(<<Obj([id |-> Str(RegisteredId(i)),
                                            location |-> Str(a.location),
                                            version |-> Str(a.version)])>>)])
              /\ c[2].url = <<BASE_URL, "/" \o own[1] \o "s/", own[2],
                              "/custom_code">>
       /\ (Finished(i) /\ SuccessOutcome(i)) =>
              /\ inv[i].result.scriptId = RegisteredId(i)
              /\ inv[i].result.appliedTo = <<own[1] \o ":", own[2]>>

C29_Isolation ==
    /\ [](\A i \in Added : OwnValues(i))
    /\ [][\A i, j \in DOMAIN inv :
             (i # j /\ inv'[j] # inv[j]) => inv'[i] = inv[i]]_vars

\* two invocations that differ in every argument, both past step 1 with
\* different ids returned and both waiting for step 2: the first applied to
\* its site and finishes, the other still waits for its page
C29_Witness ==
    \E i, j \in Added :
        /\ i # j
        /\ Len(inv[i].calls) = 2 /\ Len(inv[j].calls) = 2
        /\ Finished(i) /\ SuccessOutcome(i) /\ ~Finished(j)
        /\ RegisteredId(i) = "script-a" /\ RegisteredId(j) = "script-b"
        /\ inv[i].args.target = "site" /\ inv[j].args.target = "page"
        /\ inv[i].args.siteId # inv[j].args.siteId
        /\ inv[i].args.pageId # inv[j].args.pageId
        /\ inv[i].args.location # inv[j].args.location
        /\ inv[i].args.version # inv[j].args.version

(***************************************************************************)
(* C30: the query of every request holds exactly the parameters of the     *)
(* capability whose argument was supplied, each with the argument written  *)
(* as a string (an empty string and 0 are supplied values); an argument    *)
(* left out adds nothing, so a list invocation without limit, offset and   *)
(* elementId sends a query without parameters.  A request carries a        *)
(* Content-Type header exactly when it carries a body.                     *)
(***************************************************************************)
\* the arguments a tool passes on as query parameters
ParamsOf(tool) ==
    CASE tool \in {"listPages", "listForms", "listCustomCode"} ->
            {"limit", "offset"}
      [] tool = "listFormSubmissions" -> {"elementId", "limit", "offset"}
      [] OTHER -> {}

\* a supplied argument as text
Written(v) == IF v.t = "number" THEN ToString(v.n) ELSE v.s

C30_QueryAndContentType ==
    \A i \in Started :
        \A n \in 1..Len(inv[i].calls) :
            LET r == inv[i].calls[n]
                supplied == {k \in ParamsOf(inv[i].tool) :
                                inv[i].args[k] # Undefined}
            IN /\ DOMAIN r.search = supplied
               /\ \A k \in supplied : r.search[k] = Written(inv[i].args[k])
               /\ ("ContentType" \in DOMAIN r.headers) <=> (r.body # Undefined)
               /\ "ContentType" \in DOMAIN r.headers =>
                      r.headers.ContentType = <<"application/json">>

\* a request for form submissions with an empty elementId and offset 0 but
\* no limit: both supplied values are in the query, limit is not, and there
\* is neither a body nor a Content-Type
C30_Witness ==
    \E i \in Started :
        /\ inv[i].tool = "listFormSubmissions"
        /\ Len(inv[i].calls) = 1
        /\ inv[i].args.elementId = Str("")
        /\ inv[i].args.limit = Undefined
        /\ inv[i].args.offset = Num(0)
        /\ DOMAIN inv[i].calls[1].search = {"elementId", "offset"}
        /\ inv[i].calls[1].search.offset = "0"
        /\ "ContentType" \notin DOMAIN inv[i].calls[1].headers

==============================================================================
